---- MODULE Spec2Model ----
(***************************************************************************)
(* TransLLM (project_translator.py): the chunk / transform / merge         *)
(* pipeline of ProjectTranslator.translate_project.                        *)
(*                                                                         *)
(* Text is modelled character by character: a Python str is a sequence of  *)
(* one-character strings, so that readlines, splitlines, strip, the        *)
(* regular expressions of clean_markdown_blocks and                        *)
(* remove_boundary_markers, and '\n'.join are computed as the code         *)
(* computes them.                                                          *)
(***************************************************************************)
EXTENDS Integers, Sequences, FiniteSets, TLC

(***************************************************************************)
(* Python str primitives                                                   *)
(***************************************************************************)
NL == "\n"

\* str.isdigit / the regex class \d, on the characters of the model
IsDigit(ch) == ch \in {"0", "1", "2", "3", "4", "5", "6", "7", "8", "9"}

\* the regex class \s and the characters str.strip() and str.split() drop
IsSpace(ch) == ch \in {" ", "\t", "\n", "\r", "\f"}

\* the letters outside ASCII the texts of the model use: str.isalnum() and \w
\* hold for them
WideLetters == {"U+4E00", "U+4E2D", "U+6587", "U+9FFF", "U+A000"}

\* the regex class \w (letters, digits, underscore)
IsWord(ch) ==
    \/ IsDigit(ch)
    \/ ch = "_"
    \/ ch \in WideLetters
    \/ ch \in {"a", "b", "c", "d", "e", "f", "g", "h", "i", "j", "k", "l", "m",
               "n", "o", "p", "q", "r", "s", "t", "u", "v", "w", "x", "y", "z"}
    \/ ch \in {"A", "B", "C", "D", "E", "F", "G", "H", "I", "J", "K", "L", "M",
               "N", "O", "P", "Q", "R", "S", "T", "U", "V", "W", "X", "Y", "Z"}

\* the characters str.splitlines() breaks a line at (those of the model)
LineBreaks == {"\n", "\r", "\f"}

\* s[i:] with i counted from 1
Drop(s, i) == SubSeq(s, i, Len(s))

\* s.startswith(p, i-1): p occurs in s at position i (from 1)
MatchAt(s, i, p) ==
    /\ i + Len(p) - 1 <= Len(s)
    /\ \A j \in 1..Len(p) : s[i + j - 1] = p[j]

StartsWith(s, p) == MatchAt(s, 1, p)

EndsWith(s, p) == Len(p) <= Len(s) /\ MatchAt(s, Len(s) - Len(p) + 1, p)

\* ''.join(parts)
RECURSIVE Concat(_)
Concat(parts) ==
    IF parts = <<>> THEN <<>>
    ELSE IF Len(parts) > 8
    THEN Concat(SubSeq(parts, 1, Len(parts) \div 2))
             \o Concat(SubSeq(parts, (Len(parts) \div 2) + 1, Len(parts)))
    ELSE Head(parts) \o Concat(Tail(parts))

\* sep.join(parts)
RECURSIVE Join(_, _)
Join(parts, sep) ==
    IF parts = <<>> THEN <<>>
    ELSE IF Len(parts) = 1 THEN parts[1]
    ELSE IF Len(parts) > 8
    THEN Join(SubSeq(parts, 1, Len(parts) \div 2), sep) \o sep
             \o Join(SubSeq(parts, (Len(parts) \div 2) + 1, Len(parts)), sep)
    ELSE parts[1] \o sep \o Join(Tail(parts), sep)

\* the first position >= i of s holding a character for which the set test
\* holds, Len(s)+1 when there is none
RECURSIVE FirstIn(_, _, _)
FirstIn(s, i, set) ==
    IF i > Len(s) THEN Len(s) + 1
    ELSE IF s[i] \in set THEN i
    ELSE FirstIn(s, i + 1, set)

\* file.readlines(): the lines with their '\n' kept; a last line without
\* '\n' is a line too
RECURSIVE readlines(_)
readlines(s) ==
    IF s = <<>> THEN <<>>
    ELSE LET e == FirstIn(s, 1, {NL})
         IN  IF e > Len(s) THEN <<s>>
             ELSE <<SubSeq(s, 1, e)>> \o readlines(Drop(s, e + 1))

\* str.splitlines(): break at every line boundary ("\r\n" counts once), the
\* terminators dropped, no empty last element after a final terminator.
\* A long text is cut in two after the first whole terminator past its
\* middle and the lines of the two parts are put together, which keeps the
\* evaluation shallow and gives the same lines.
RECURSIVE splitlines(_)
splitlines(s) ==
    IF s = <<>> THEN <<>>
    ELSE LET half == FirstIn(s, (Len(s) \div 2) + 1, LineBreaks)
             e    == FirstIn(s, 1, LineBreaks)
         IN  IF /\ Len(s) > 40
                /\ half < Len(s)
                /\ ~(s[half] = "\r" /\ s[half + 1] = "\n")
             THEN splitlines(SubSeq(s, 1, half)) \o splitlines(Drop(s, half + 1))
             ELSE IF e > Len(s) THEN <<s>>
             ELSE LET skip == IF s[e] = "\r" /\ e < Len(s) /\ s[e + 1] = "\n"
                              THEN 2 ELSE 1
                  IN  <<SubSeq(s, 1, e - 1)>> \o splitlines(Drop(s, e + skip))

\* the number of leading characters of s, from position i, that are \s
RECURSIVE SpaceRun(_, _)
SpaceRun(s, i) ==
    IF i <= Len(s) /\ IsSpace(s[i]) THEN 1 + SpaceRun(s, i + 1) ELSE 0

\* str.lstrip()
lstrip(s) == Drop(s, SpaceRun(s, 1) + 1)

\* the number of trailing characters of s that are \s
RECURSIVE SpaceRunBack(_)
SpaceRunBack(s) ==
    IF s # <<>> /\ IsSpace(s[Len(s)])
    THEN 1 + SpaceRunBack(SubSeq(s, 1, Len(s) - 1)) ELSE 0

\* str.rstrip()
rstrip(s) == SubSeq(s, 1, Len(s) - SpaceRunBack(s))

\* str.strip()
strip(s) == rstrip(lstrip(s))

\* str.replace(ch, ''): every occurrence of the character dropped
RECURSIVE RemoveChars(_, _)
RemoveChars(s, set) ==
    IF s = <<>> THEN <<>>
    ELSE IF Head(s) \in set THEN RemoveChars(Tail(s), set)
    ELSE <<Head(s)>> \o RemoveChars(Tail(s), set)

\* the number of leading characters of s, from position i, that are not \s
RECURSIVE TokenRun(_, _)
TokenRun(s, i) ==
    IF i <= Len(s) /\ ~IsSpace(s[i]) THEN 1 + TokenRun(s, i + 1) ELSE 0

\* str.split(): the maximal runs of non-whitespace characters
RECURSIVE split(_)
split(s) ==
    LET t == lstrip(s)
    IN  IF t = <<>> THEN <<>>
        ELSE LET n == TokenRun(t, 1)
             IN  <<SubSeq(t, 1, n)>> \o split(Drop(t, n + 1))

\* the number of leading characters of s, from position i, that are \d
RECURSIVE DigitRun(_, _)
DigitRun(s, i) ==
    IF i <= Len(s) /\ IsDigit(s[i]) THEN 1 + DigitRun(s, i + 1) ELSE 0

\* the number of leading characters of s, from position i, that are \w
RECURSIVE WordRun(_, _)
WordRun(s, i) ==
    IF i <= Len(s) /\ IsWord(s[i]) THEN 1 + WordRun(s, i + 1) ELSE 0

\* s.find(p) + 1: the first position at which p occurs in s, 0 when none
FindSub(s, p) ==
    LET P == {i \in 1..Len(s) : MatchAt(s, i, p)}
    IN  IF P = {} THEN 0 ELSE CHOOSE i \in P : \A j \in P : i <= j

\* str(n) for n >= 0
RECURSIVE DecStr(_)
DecStr(n) ==
    LET d == <<"0", "1", "2", "3", "4", "5", "6", "7", "8", "9">>[(n % 10) + 1]
    IN  IF n < 10 THEN <<d>> ELSE DecStr(n \div 10) \o <<d>>

\* f"{n:04d}": zero-padded to four digits, longer when n needs more
Pad4(n) ==
    LET d == DecStr(n)
    IN  IF Len(d) >= 4 THEN d
        ELSE [i \in 1..(4 - Len(d)) |-> "0"] \o d

\* a dict with key k set to v
Put(f, k, v) == [x \in (DOMAIN f) \cup {k} |-> IF x = k THEN v ELSE f[x]]

(***************************************************************************)
(* String literals of the code                                             *)
(***************************************************************************)
Dashes == <<"-", "-", "-">>
ChunkStartPrefix ==
    <<"-", "-", "-", "C", "H", "U", "N", "K", "_", "S", "T", "A", "R", "T", "_">>
ChunkEndPrefix ==
    <<"-", "-", "-", "C", "H", "U", "N", "K", "_", "E", "N", "D", "_">>
ChunkInfix == <<"_", "c", "h", "u", "n", "k", "_">>
TxtSuffix == <<".", "t", "x", "t">>
TranslatedSuffix == <<"_", "t", "r", "a", "n", "s", "l", "a", "t", "e", "d">>
Sep == "/"
\* the backquote character (written as a name: the module's text holds none)
Backquote == "BACKQUOTE"
\* the markdown fence, three backquotes
Fence == <<Backquote, Backquote, Backquote>>

\* None of Python, the value translate_chunk falls through to
None == <<"<None>">>

\* f"---CHUNK_START_{chunk_index:04d}---\n"
StartMarker(chunk_index) == ChunkStartPrefix \o Pad4(chunk_index) \o Dashes \o <<NL>>

\* f"---CHUNK_END_{chunk_index:04d}---\n"
EndMarker(chunk_index) == ChunkEndPrefix \o Pad4(chunk_index) \o Dashes \o <<NL>>

(***************************************************************************)
(* FileChunker.split_file                                                  *)
(***************************************************************************)
\* os.path.join(a, b) for a relative b
PathJoin(a, b) == a \o <<Sep>> \o b

\* os.path.relpath(file_path, source_project_path) for a file under the project
relpath(file_path, source_project_path) ==
    Drop(file_path, Len(source_project_path) + 2)

\* relative_path.replace(os.sep, '_').replace('.', '_')
safe_name(relative_path) ==
    [i \in 1..Len(relative_path) |->
        IF relative_path[i] \in {Sep, "."} THEN "_" ELSE relative_path[i]]

\* f"{safe_name}_chunk_{chunk_index:04d}.txt"
chunk_filename(relative_path, chunk_index) ==
    safe_name(relative_path) \o ChunkInfix \o Pad4(chunk_index) \o TxtSuffix

\* lines[i:i + chunk_size], i counted from 0
Slice(lines, i, chunk_size) ==
    SubSeq(lines, i + 1, IF i + chunk_size < Len(lines) THEN i + chunk_size ELSE Len(lines))

\* make_chunk_content with the end marker put after the last chunk too
make_chunk_content_end_everywhere(lines, i, chunk_size) ==
    LET chunk_index == i \div chunk_size
        body == Concat(Slice(lines, i, chunk_size))
        head == IF i > 0 THEN StartMarker(chunk_index) \o body ELSE body
    IN  head \o EndMarker(chunk_index)

\* the content of the chunk that starts at line i: the start marker except
\* for the first chunk, the lines, the end marker except for the last chunk
make_chunk_content(lines, i, chunk_size) ==
    LET chunk_index == i \div chunk_size
        body == Concat(Slice(lines, i, chunk_size))
        head == IF i > 0 THEN StartMarker(chunk_index) \o body ELSE body
    IN  IF i + chunk_size < Len(lines) THEN head \o EndMarker(chunk_index) ELSE head

\* chunk_data with end_line not cut down to the length of the file
chunk_data_unclamped(file_path, lines, i, chunk_size) ==
    [original_file    |-> file_path,
     chunk_index      |-> i \div chunk_size,
     start_line       |-> i,
     end_line         |-> i + chunk_size,
     content          |-> make_chunk_content(lines, i, chunk_size),
     has_start_marker |-> i > 0,
     has_end_marker   |-> i + chunk_size < Len(lines)]

\* the record split_file stores for the chunk that starts at line i
chunk_data(file_path, lines, i, chunk_size) ==
    [original_file    |-> file_path,
     chunk_index      |-> i \div chunk_size,
     start_line       |-> i,
     end_line         |-> IF i + chunk_size < Len(lines) THEN i + chunk_size ELSE Len(lines),
     content          |-> make_chunk_content(lines, i, chunk_size),
     has_start_marker |-> i > 0,
     has_end_marker   |-> i + chunk_size < Len(lines)]

\* range(0, len(lines), chunk_size), as a sequence
RECURSIVE ChunkStarts(_, _, _)
ChunkStarts(i, n, chunk_size) ==
    IF i >= n THEN <<>> ELSE <<i>> \o ChunkStarts(i + chunk_size, n, chunk_size)

\* split_file: the list of (chunk file name, record) it writes, in order
split_file(file_path, content, source_project_path, chunk_size) ==
    LET lines  == readlines(content)
        starts == ChunkStarts(0, Len(lines), chunk_size)
        rel    == relpath(file_path, source_project_path)
    IN  [k \in 1..Len(starts) |->
            [name |-> chunk_filename(rel, starts[k] \div chunk_size),
             data |-> chunk_data(file_path, lines, starts[k], chunk_size)]]

\* the directory after the files of a list of written chunks are stored
RECURSIVE WriteAll(_, _)
WriteAll(dir, written) ==
    IF written = <<>> THEN dir
    ELSE WriteAll(Put(dir, Head(written).name, Head(written).data), Tail(written))

(***************************************************************************)
(* LLMTranslator.translate_chunk                                           *)
(***************************************************************************)
\* what the provider call does: it raises (the API call, or .strip() on a
\* missing message content), or it answers with a text
ApiError == [kind |-> "error", text |-> <<>>]
ApiText(t) == [kind |-> "text", text |-> t]

\* translate_chunk: the stripped answer for the providers it has a branch
\* for, the chunk unchanged when the call raises, None for any other provider
translate_chunk(llm_provider, chunk_content, response) ==
    IF llm_provider \in {"groq", "openai"}
    THEN IF response.kind = "error" THEN chunk_content ELSE strip(response.text)
    ELSE None

(***************************************************************************)
(* ProjectTranslator.clean_markdown_blocks                                 *)
(***************************************************************************)
\* the greatest position in lo..hi of s that holds '\n', 0 when none
LastNewline(s, lo, hi) ==
    LET P == {p \in lo..hi : s[p] = NL}
    IN  IF P = {} THEN 0 ELSE CHOOSE p \in P : \A q \in P : q <= p

\* the end of the match of ^\s*```[\w]*\s*\n at the start of s, 0 when none
OpenerEnd(s) ==
    LET f == SpaceRun(s, 1) + 1
    IN  IF ~MatchAt(s, f, Fence) THEN 0
        ELSE LET w == f + 3 + WordRun(s, f + 3)
             IN  LastNewline(s, w, w + SpaceRun(s, w) - 1)

\* whether \n\s*```\s*$ matches s from position p to the end
CloserAt(s, p) ==
    /\ s[p] = NL
    /\ LET f == p + 1 + SpaceRun(s, p + 1)
       IN  /\ MatchAt(s, f, Fence)
           /\ f + 3 + SpaceRun(s, f + 3) > Len(s)

\* the start of the leftmost match of \n\s*```\s*$ in s, 0 when none
CloserStart(s) ==
    LET P == {p \in 1..Len(s) : CloserAt(s, p)}
    IN  IF P = {} THEN 0 ELSE CHOOSE p \in P : \A q \in P : p <= q

\* re.sub(r'^\s*```[\w]*\s*\n', '', content)
StripOpener(content) == Drop(content, OpenerEnd(content) + 1)

\* re.sub(r'\n\s*```\s*$', '', content)
StripCloser(content) ==
    IF CloserStart(content) = 0 THEN content
    ELSE SubSeq(content, 1, CloserStart(content) - 1)

clean_markdown_blocks(content) == StripCloser(StripOpener(content))

(***************************************************************************)
(* ProjectTranslator.validate_translation                                  *)
(***************************************************************************)
Abs(x) == IF x < 0 THEN -x ELSE x

\* DriftTooLarge without the 15% part of the bound
DriftTooLarge_ten_only(n_original, n_translated) ==
    Abs(n_original - n_translated) > 10

\* line_diff > max(10, N * 0.15), in integers
DriftTooLarge(n_original, n_translated) ==
    LET line_diff == Abs(n_original - n_translated)
    IN  line_diff > 10 /\ 100 * line_diff > 15 * n_original

\* s.replace('{', '').replace('}', '').replace('(', '').replace(')', '').split()
Tokens(s) == split(RemoveChars(s, {"{", "}", "(", ")"}))

\* the condition of the conditional expression
\*   len(orig_tokens) > 0 and orig_tokens[0] != trans_tokens[0]
\*       if trans_tokens else True
FirstTokenChanged(orig_tokens, trans_tokens) ==
    IF trans_tokens # <<>>
    THEN Len(orig_tokens) > 0 /\ orig_tokens[1] # trans_tokens[1]
    ELSE TRUE

\* whether the first line of the translation is put back to the original one
RestoreFirstLine(original_lines, translated_lines) ==
    /\ Len(original_lines) > 0
    /\ Len(translated_lines) > 0
    /\ LET orig_first  == strip(original_lines[1])
           trans_first == strip(translated_lines[1])
       IN  /\ orig_first # <<>>
           /\ ~StartsWith(orig_first, <<"/", "/">>)
           /\ ~StartsWith(orig_first, <<"#">>)
           /\ Len(split(orig_first)) > 0
           /\ Len(split(trans_first)) > 0
           /\ FirstTokenChanged(Tokens(orig_first), Tokens(trans_first))

validate_translation(original_content, translated_content) ==
    LET original_lines   == splitlines(original_content)
        translated_lines == splitlines(translated_content)
    IN  IF /\ Len(original_lines) # Len(translated_lines)
           /\ DriftTooLarge(Len(original_lines), Len(translated_lines))
        THEN original_content
        ELSE IF RestoreFirstLine(original_lines, translated_lines)
        THEN Join(<<original_lines[1]>> \o Tail(translated_lines), <<NL>>)
        ELSE Join(translated_lines, <<NL>>)

(***************************************************************************)
(* ChunkMerger.remove_boundary_markers                                     *)
(***************************************************************************)
\* the length of the match of <prefix>\d+---\n? at position i of s, 0 when
\* it does not match there
MarkerLen(s, i, prefix) ==
    IF ~MatchAt(s, i, prefix) THEN 0
    ELSE LET d == DigitRun(s, i + Len(prefix))
             e == i + Len(prefix) + d
         IN  IF d = 0 \/ ~MatchAt(s, e, Dashes) THEN 0
             ELSE IF e + 3 <= Len(s) /\ s[e + 3] = NL
             THEN Len(prefix) + d + 4
             ELSE Len(prefix) + d + 3

\* re.sub(<prefix>\d+---\n?, '', s): the matches found from left to right
RECURSIVE SubMarker(_, _, _)
SubMarker(s, i, prefix) ==
    IF i > Len(s) THEN <<>>
    ELSE LET m == MarkerLen(s, i, prefix)
         IN  IF m > 0 THEN SubMarker(s, i + m, prefix)
             ELSE <<s[i]>> \o SubMarker(s, i + 1, prefix)

remove_boundary_markers(content) ==
    SubMarker(SubMarker(content, 1, ChunkStartPrefix), 1, ChunkEndPrefix)

(***************************************************************************)
(* ChunkMerger.merge_chunks                                                *)
(***************************************************************************)
\* os.path.basename(path)
basename(path) ==
    LET P == {i \in 1..Len(path) : path[i] = Sep}
    IN  IF P = {} THEN path
        ELSE Drop(path, (CHOOSE i \in P : \A j \in P : j <= i) + 1)

\* the relative path merge_chunks takes out of output_file: what follows the
\* first '_translated/' (both branches of the code split there; [1] raises
\* IndexError, here None, when '_translated' is never followed by '/'), the
\* base name when the path has no '_translated'
rel_output_path(output_file) ==
    IF FindSub(output_file, TranslatedSuffix) = 0 THEN basename(output_file)
    ELSE LET at == FindSub(output_file, TranslatedSuffix \o <<Sep>>)
         IN  IF at = 0 THEN None
             ELSE Drop(output_file, at + Len(TranslatedSuffix) + 1)

\* chunk_file.startswith(safe_name + '_chunk_') and chunk_file.endswith('.txt')
IsChunkOf(chunk_file, safe) ==
    StartsWith(chunk_file, safe \o ChunkInfix) /\ EndsWith(chunk_file, TxtSuffix)

\* the (chunk_path, chunk_index, chunk_data) entries read from the listing,
\* in listing order
RECURSIVE chunk_files_of(_, _, _)
chunk_files_of(dir, listing, safe) ==
    IF listing = <<>> THEN <<>>
    ELSE LET rest == chunk_files_of(dir, Tail(listing), safe)
         IN  IF IsChunkOf(Head(listing), safe)
             THEN <<[path  |-> Head(listing),
                     index |-> dir[Head(listing)].chunk_index,
                     data  |-> dir[Head(listing)]]>> \o rest
             ELSE rest

\* one entry put into a list sorted by index, after the entries with the
\* same index (list.sort is stable)
RECURSIVE InsertByIndex(_, _)
InsertByIndex(sorted, e) ==
    IF sorted = <<>> THEN <<e>>
    ELSE IF Head(sorted).index <= e.index
    THEN <<Head(sorted)>> \o InsertByIndex(Tail(sorted), e)
    ELSE <<e>> \o sorted

\* the sort left out: the entries in listing order
SortByIndex_skipped(entries) == entries

\* chunk_files.sort(key=lambda x: x[1])
RECURSIVE SortByIndex(_)
SortByIndex(entries) ==
    IF entries = <<>> THEN <<>>
    ELSE InsertByIndex(SortByIndex(SubSeq(entries, 1, Len(entries) - 1)),
                       entries[Len(entries)])

\* the loop appending every body as it is
RECURSIVE MergeLoop_appending(_, _, _)
MergeLoop_appending(chunk_files, i, merged_lines) ==
    IF i > Len(chunk_files) THEN merged_lines
    ELSE MergeLoop_appending(chunk_files, i + 1,
             Append(merged_lines,
                    remove_boundary_markers(chunk_files[i].data.content)))

\* merged_lines after the loop has handled entries i..Len(chunk_files)
RECURSIVE MergeLoop(_, _, _)
MergeLoop(chunk_files, i, merged_lines) ==
    IF i > Len(chunk_files) THEN merged_lines
    ELSE LET cleaned_content == remove_boundary_markers(chunk_files[i].data.content)
             n == Len(merged_lines)
         IN  IF i = 1
             THEN MergeLoop(chunk_files, 2, Append(merged_lines, cleaned_content))
             ELSE IF /\ n > 0
                     /\ merged_lines[n] # <<>>
                     /\ ~EndsWith(merged_lines[n], <<NL>>)
             THEN MergeLoop(chunk_files, i + 1,
                      Append([merged_lines EXCEPT ![n] = @ \o <<NL>>], cleaned_content))
             ELSE MergeLoop(chunk_files, i + 1, Append(merged_lines, cleaned_content))

\* the merged text of the sorted entries
merged_content(chunk_files) == Concat(MergeLoop(chunk_files, 1, <<>>))

\* merge_chunks: whether it returns True, and the text it writes when it does
merge_chunks(dir, listing, output_file) ==
    LET rel == rel_output_path(output_file)
    IN  IF rel = None THEN [ok |-> FALSE, written |-> <<>>]
        ELSE LET chunk_files == chunk_files_of(dir, listing, safe_name(rel))
             IN  IF chunk_files = <<>> THEN [ok |-> FALSE, written |-> <<>>]
                 ELSE [ok |-> TRUE,
                       written |-> merged_content(SortByIndex(chunk_files))]

(***************************************************************************)
(* ProjectTranslator.translate_chunk_with_semaphore, the part run while    *)
(* the slot is held                                                        *)
(***************************************************************************)
\* the body of the try block: the record stored and True, or, when a step
\* raises (clean_markdown_blocks on None is a TypeError), nothing stored and
\* False
process_chunk(llm_provider, chunk, response) ==
    LET translated_content == translate_chunk(llm_provider, chunk.content, response)
    IN  IF translated_content = None
        THEN [result |-> FALSE, stored |-> FALSE, data |-> chunk]
        ELSE [result |-> TRUE,
              stored |-> TRUE,
              data   |-> [chunk EXCEPT !.content =
                            validate_translation(chunk.content,
                                clean_markdown_blocks(translated_content))]]

(***************************************************************************)
(* ProjectTranslator.validate_merged_file and the checks it calls.         *)
(* A diagnostic is a tuple: the fixed words of the message, then the       *)
(* values the code formats into it.                                        *)
(***************************************************************************)
\* str.isalnum() on one character of the model
IsAlnum(ch) == IsWord(ch) /\ ch # "_"

\* the characters extract_structure keeps as they are
StructureChars ==
    {"{", "}", "(", ")", "[", "]", ";", ",", "=", "+", "-", "*", "/", "<", ">",
     "!", "&", "|"}

\* structure_line after the characters i.. of a stripped line are scanned
RECURSIVE StructureLine(_, _, _)
StructureLine(stripped, i, structure_line) ==
    IF i > Len(stripped) THEN structure_line
    ELSE LET char == stripped[i]
             n    == Len(structure_line)
         IN  IF char \in StructureChars
             THEN StructureLine(stripped, i + 1, Append(structure_line, char))
             ELSE IF IsAlnum(char) \/ char = "_"
             THEN IF n = 0 \/ ~IsAlnum(structure_line[n])
                  THEN StructureLine(stripped, i + 1, Append(structure_line, char))
                  ELSE StructureLine(stripped, i + 1, structure_line)
             ELSE IF char \in {" ", "\t"}
             THEN IF n > 0 /\ structure_line[n] # " "
                  THEN StructureLine(stripped, i + 1, Append(structure_line, " "))
                  ELSE StructureLine(stripped, i + 1, structure_line)
             ELSE StructureLine(stripped, i + 1, structure_line)

\* structure_elements: one entry for every line that is not blank, not a
\* comment, and leaves a structure line that is not empty
RECURSIVE StructureElements(_)
StructureElements(lines) ==
    IF lines = <<>> THEN <<>>
    ELSE LET stripped == strip(Head(lines))
             rest     == StructureElements(Tail(lines))
         IN  IF \/ stripped = <<>>
                \/ StartsWith(stripped, <<"#">>)
                \/ StartsWith(stripped, <<"/", "/">>)
             THEN rest
             ELSE LET structure_line == StructureLine(stripped, 1, <<>>)
                  IN  IF structure_line = <<>> THEN rest
                      ELSE <<strip(structure_line)>> \o rest

extract_structure(lines) == Join(StructureElements(lines), <<NL>>)

\* the text ast.parse accepts, for the Python the files of the model are
\* written in: every line is blank, a comment, or one name at column 0
IsName(line) ==
    /\ line # <<>>
    /\ ~IsDigit(line[1])
    /\ \A i \in 1..Len(line) : IsWord(line[i])

ParsesAsPython(content) ==
    \A l \in 1..Len(splitlines(content)) :
        LET line == splitlines(content)[l]
        IN  \/ strip(line) = <<>>
            \/ StartsWith(lstrip(line), <<"#">>)
            \/ IsName(rstrip(line))

validate_python_syntax(content) ==
    IF ParsesAsPython(content) THEN <<>> ELSE << <<"Python syntax error">> >>

\* the characters of the range U+4E00..U+9FFF, each written as a name
\* the characters outside ASCII the texts of the model use, by code point
CodePoint ==
    [ch \in WideLetters \cup {"U+4DFF"} |->
        CASE ch = "U+4DFF" -> 19967
          [] ch = "U+4E00" -> 19968
          [] ch = "U+4E2D" -> 20013
          [] ch = "U+6587" -> 25991
          [] ch = "U+9FFF" -> 40959
          [] ch = "U+A000" -> 40960]

\* what the pattern [U+4E00-U+9FFF] of chinese_pattern matches
Hanzi == {ch \in DOMAIN CodePoint : CodePoint[ch] \in 19968..40959}

\* set(chinese_pattern.findall(text))
chinese_chars(text) == {text[i] : i \in {j \in 1..Len(text) : text[j] \in Hanzi}}

PreserveFlag ==
    <<"P", "R", "E", "S", "E", "R", "V", "E", "_", "C", "H", "I", "N", "E", "S",
      "E", "_", "C", "H", "A", "R", "A", "C", "T", "E", "R", "S">>
TranslateFlag ==
    <<"T", "R", "A", "N", "S", "L", "A", "T", "E", "_", "C", "H", "I", "N", "E",
      "S", "E", "_", "C", "H", "A", "R", "A", "C", "T", "E", "R", "S">>

\* validate_chinese_characters that looks for lost characters only
validate_chinese_characters_lost_only(original, translated, custom_instructions) ==
    LET lost_chars == chinese_chars(original) \ chinese_chars(translated)
    IN  IF FindSub(custom_instructions, PreserveFlag) # 0 /\ lost_chars # {}
        THEN << <<"Lost Chinese characters (should be preserved)", lost_chars>> >>
        ELSE <<>>

\* the errors of validate_chinese_characters; its 'valid' is their absence
validate_chinese_characters(original, translated, custom_instructions) ==
    LET original_chinese   == chinese_chars(original)
        translated_chinese == chinese_chars(translated)
        lost_chars         == original_chinese \ translated_chinese
        new_chars          == translated_chinese \ original_chinese
        remaining_chars    == translated_chinese \cap original_chinese
    IN  IF FindSub(custom_instructions, PreserveFlag) # 0
        THEN (IF lost_chars # {}
              THEN << <<"Lost Chinese characters (should be preserved)", lost_chars>> >>
              ELSE <<>>)
             \o (IF new_chars # {}
                 THEN << <<"New Chinese characters appeared", new_chars>> >>
                 ELSE <<>>)
        ELSE IF FindSub(custom_instructions, TranslateFlag) # 0
        THEN IF remaining_chars # {}
             THEN << <<"Chinese characters not translated", remaining_chars>> >>
             ELSE <<>>
        ELSE <<>>

\* len(line) - len(line.lstrip())
Indent(line) == Len(line) - Len(lstrip(line))

\* the errors of validate_indentation for the line positions i..
RECURSIVE IndentationErrors(_, _, _)
IndentationErrors(original_lines, translated_lines, i) ==
    IF i > Len(original_lines) THEN <<>>
    ELSE LET orig_indent  == Indent(original_lines[i])
             trans_indent == Indent(translated_lines[i])
             rest == IndentationErrors(original_lines, translated_lines, i + 1)
         IN  IF orig_indent # trans_indent
             THEN << <<"Indentation mismatch at line", i, orig_indent, trans_indent>> >>
                      \o rest
             ELSE rest

\* validate_indentation that compares the lines both texts have, whatever
\* the line counts
validate_indentation_any_length(original_lines, translated_lines) ==
    LET n == IF Len(original_lines) < Len(translated_lines)
             THEN Len(original_lines) ELSE Len(translated_lines)
    IN  IndentationErrors(SubSeq(original_lines, 1, n), SubSeq(translated_lines, 1, n), 1)

validate_indentation(original_lines, translated_lines) ==
    IF Len(original_lines) # Len(translated_lines) THEN <<>>
    ELSE IndentationErrors(original_lines, translated_lines, 1)

Brackets == {"(", ")", "[", "]", "{", "}"}

\* the brackets counted in a line from position i on, in_string as it stands
RECURSIVE LineBrackets(_, _, _)
LineBrackets(line, i, in_string) ==
    IF i > Len(line) THEN <<>>
    ELSE LET char == line[i]
         IN  IF char \in {"\"", "'"} /\ (i = 1 \/ line[i - 1] # "\\")
             THEN LineBrackets(line, i + 1, ~in_string)
             ELSE IF ~in_string /\ char = "#" THEN <<>>
             ELSE IF ~in_string /\ char \in Brackets
             THEN <<char>> \o LineBrackets(line, i + 1, in_string)
             ELSE LineBrackets(line, i + 1, in_string)

\* the brackets counted in all the lines, in the order they are met
RECURSIVE CountedBrackets(_)
CountedBrackets(lines) ==
    IF lines = <<>> THEN <<>>
    ELSE LineBrackets(Head(lines), 1, FALSE) \o CountedBrackets(Tail(lines))

\* dict(brackets): a count for every bracket type met, no key for the others
count_brackets(lines) ==
    LET met == CountedBrackets(lines)
    IN  [b \in {met[i] : i \in 1..Len(met)} |->
            Cardinality({i \in 1..Len(met) : met[i] = b})]

\* the differences find_structure_differences lists, one for each key of the
\* counts of the original; none listed reads "unknown structural change"
find_structure_differences(original_lines, translated_lines) ==
    LET orig_brackets  == count_brackets(original_lines)
        trans_brackets == count_brackets(translated_lines)
        trans_count(b) == IF b \in DOMAIN trans_brackets THEN trans_brackets[b] ELSE 0
    IN  {<<b, orig_brackets[b], trans_count(b)>> :
            b \in {c \in DOMAIN orig_brackets : orig_brackets[c] # trans_count(c)}}

PySuffix == <<".", "p", "y">>

\* the errors list of the try block of validate_merged_file
merged_file_errors(original_file_path, original_content, merged, custom_instructions) ==
    LET original_lines == splitlines(original_content)
        merged_lines   == splitlines(merged)
    IN  (IF Len(original_lines) # Len(merged_lines)
         THEN << <<"Line count mismatch", Len(original_lines), Len(merged_lines)>> >>
         ELSE <<>>)
        \o (IF EndsWith(original_file_path, PySuffix)
            THEN validate_python_syntax(merged)
            ELSE <<>>)
        \o (IF extract_structure(original_lines) # extract_structure(merged_lines)
            THEN << <<"Code structure changed",
                      find_structure_differences(original_lines, merged_lines)>> >>
            ELSE <<>>)
        \o validate_chinese_characters(original_content, merged, custom_instructions)
        \o validate_indentation(original_lines, merged_lines)

\* validate_merged_file with an except clause that records no diagnostic
validate_merged_file_silent(original_file_path, original_content, merged, custom_instructions, raises) ==
    IF raises
    THEN [valid |-> FALSE, errors |-> <<>>]
    ELSE LET errors == merged_file_errors(original_file_path, original_content,
                                          merged, custom_instructions)
         IN  [valid |-> Len(errors) = 0, errors |-> errors]

\* what validate_merged_file returns: the errors and valid; when reading one
\* of the two files raises, the record of the except clause
validate_merged_file(original_file_path, original_content, merged, custom_instructions, raises) ==
    IF raises
    THEN [valid |-> FALSE, errors |-> << <<"Validation exception">> >>]
    ELSE LET errors == merged_file_errors(original_file_path, original_content,
                                          merged, custom_instructions)
         IN  [valid |-> Len(errors) = 0, errors |-> errors]

\* a file that was not merged recorded as valid
MergeFailed_as_valid == [valid |-> TRUE, errors |-> <<>>]

\* the record translate_project writes itself when merge_chunks returned False
MergeFailed == [valid |-> FALSE, errors |-> << <<"Failed to merge chunks">> >>]

(***************************************************************************)
(* The inputs of a run: configuration, project files, provider answers     *)
(***************************************************************************)
\* bounds of the model
MaxLines == 3
MaxChunkSize == 2
MaxConcurrent == 2

LowerCase ==
    <<"a", "b", "c", "d", "e", "f", "g", "h", "i", "j", "k", "l", "m",
      "n", "o", "p", "q", "r", "s", "t", "u", "v", "w", "x", "y", "z">>
UpperCase ==
    <<"A", "B", "C", "D", "E", "F", "G", "H", "I", "J", "K", "L", "M",
      "N", "O", "P", "Q", "R", "S", "T", "U", "V", "W", "X", "Y", "Z">>

\* the relative paths of the files to translate, in the order of the analysis
Paths == << <<"a", ".", "p", "y">>, <<"b", ".", "p", "y">> >>

\* config.source_project_path
SourceProjectPath == <<"p">>

\* config.custom_instructions, left at its default
default_custom_instructions == <<>>

\* line j of file f is one letter, a different one at every place of the
\* project, so that a line lost, repeated or moved shows in the text
LineLetter(f, j) == LowerCase[(f - 1) * 13 + j]

\* the file of n lines that all end with '\n'
PlainContent(f, n) == Concat([j \in 1..n |-> <<LineLetter(f, j), NL>>])

\* the files of n lines: every line ends with '\n' but the last, which may
\* also lack its '\n' or be a blank line
FileContents(f, n) ==
    IF n = 0 THEN {<<>>}
    ELSE {PlainContent(f, n),
          PlainContent(f, n - 1) \o <<LineLetter(f, n)>>,
          PlainContent(f, n - 1) \o <<NL>>}

\* the projects of the concurrent runs: one or two files of at most MaxLines
\* lines in all
Projects ==
    {<<PlainContent(1, n)>> : n \in 0..MaxLines}
    \cup {<<PlainContent(1, x[1]), PlainContent(2, x[2])>> :
             x \in {y \in (0..MaxLines) \X (0..MaxLines) : y[1] + y[2] <= MaxLines}}

\* the projects of the one-file runs: one file of at most MaxLines lines, its
\* last line of any of the three shapes
OneFileProjects == UNION {{<<c>> : c \in FileContents(1, n)} : n \in 0..MaxLines}

Providers == {"groq", "anthropic"}

Configs ==
    [chunk_size              : 1..MaxChunkSize,
     max_concurrent_requests : 1..MaxConcurrent,
     llm_provider            : Providers]

\* one call at a time
SequentialConfigs ==
    [chunk_size              : 1..MaxChunkSize,
     max_concurrent_requests : {1},
     llm_provider            : Providers]

\* a translation of a text: its lower-case letters changed, every other
\* character (the boundary markers among them) kept
Translated(text) ==
    [i \in 1..Len(text) |->
        IF \E k \in 1..26 : LowerCase[k] = text[i]
        THEN UpperCase[CHOOSE k \in 1..26 : LowerCase[k] = text[i]]
        ELSE text[i]]

\* what the provider does with a chunk in the behaviours explored: fail, send
\* the text back as it is, send a translation inside a markdown fence
ApiKinds == {"error", "echo", "fenced"}

Response(kind, content) ==
    CASE kind = "error"      -> ApiError
      [] kind = "echo"       -> ApiText(content)
      [] kind = "translated" -> ApiText(Translated(content))
      [] kind = "fenced"     ->
            ApiText(Fence \o <<NL>> \o Translated(content) \o <<NL>> \o Fence)
      [] OTHER               -> ApiError

\* the calls translate_chunk can make for the configured provider: none for
\* a provider it has no branch for
KindsFor(llm_provider) ==
    IF llm_provider \in {"groq", "openai"} THEN ApiKinds ELSE {"nocall"}

\* every order in which os.listdir may list the names of a set
RECURSIVE Listings(_)
Listings(names) ==
    IF names = {} THEN {<<>>}
    ELSE UNION {{<<n>> \o l : l \in Listings(names \ {n})} : n \in names}

\* everything merge_chunks can return for a file, os.listdir giving the
\* names of the directory in any order: the results of merge_chunks for the
\* listings of the directory, the path worked out once and the text built
\* once for every list of sorted entries
merge_outcomes(dir, output_file) ==
    LET rel == rel_output_path(output_file)
    IN  IF rel = None THEN {[ok |-> FALSE, written |-> <<>>]}
        ELSE LET safe == safe_name(rel)
                 sorted == {SortByIndex(chunk_files_of(dir, listing, safe)) :
                               listing \in Listings(DOMAIN dir)}
             IN  {IF chunk_files = <<>> THEN [ok |-> FALSE, written |-> <<>>]
                  ELSE [ok |-> TRUE, written |-> merged_content(chunk_files)] :
                     chunk_files \in sorted}

(***************************************************************************)
(* ProjectTranslator.translate_project                                     *)
(***************************************************************************)
VARIABLES
    config,                 \* TranslationConfig
    project,                \* the text of each file to translate
    pc,                     \* where translate_project is
    file_index,             \* the file the current loop is at
    chunks_dir,             \* chunk file name -> record, as split_file wrote it
    all_chunks,             \* the chunk paths, one task each
    semaphore,              \* free slots of the asyncio.Semaphore
    tasks,                  \* the translate_chunk_with_semaphore coroutines
    translated_chunks_dir,  \* chunk file name -> record, as the tasks wrote it
    successful_translations,
    output_files,           \* relative path -> merged text written
    merge_results,          \* relative path -> what merge_chunks returned
    files_to_translate,     \* the relative paths project_info lists, in order
    faults,                 \* the file operations that raise in this run
    detailed_validation_results,  \* relative path -> validation result
    given_original,         \* a function called on its own: its first argument,
    given_content,          \*   the text it is applied to,
    returned                \*   and what its successive applications returned

\* the variables of a function called on its own
unit_vars == <<given_original, given_content, returned>>

\* what the run is given: the files listed and the operations that raise
given_vars == <<files_to_translate, faults>>

vars == <<config, project, pc, file_index, chunks_dir, all_chunks, semaphore,
          tasks, translated_chunks_dir, successful_translations, output_files,
          merge_results, files_to_translate, faults, detailed_validation_results,
          given_original, given_content, returned>>

\* file_info['full_path'] of the i-th file
full_path(i) == PathJoin(SourceProjectPath, files_to_translate[i])

\* os.path.join(output_project_dir, relative_path)
output_file(i) == PathJoin(SourceProjectPath \o TranslatedSuffix, files_to_translate[i])

\* the state translate_project starts from, for a configuration, the files
\* listed, their texts and the operations that raise
StartWith(c, f, p, flt) ==
    /\ config = c
    /\ files_to_translate = f
    /\ project = p
    /\ faults = flt
    /\ detailed_validation_results = <<>>
    /\ given_original = <<>>
    /\ given_content = <<>>
    /\ returned = <<>>
    /\ pc = "split"
    /\ file_index = 1
    /\ chunks_dir = <<>>
    /\ all_chunks = <<>>
    /\ semaphore = 0
    /\ tasks = <<>>
    /\ translated_chunks_dir = <<>>
    /\ successful_translations = 0
    /\ output_files = <<>>
    /\ merge_results = <<>>

\* the same for the files Paths names and no operation raising
Start(c, p) == StartWith(c, SubSeq(Paths, 1, Len(p)), p, {})

Init == \E c \in Configs : \E p \in Projects : Start(c, p)

\* one file, one call at a time
InitOneFile == \E c \in SequentialConfigs : \E p \in OneFileProjects : Start(c, p)

\* step 4, one pass of the loop: split_file on the next file
SplitNextFile ==
    /\ pc = "split"
    /\ file_index <= Len(project)
    /\ LET chunks == IF <<file_index, "split">> \in faults THEN <<>>
                     ELSE split_file(full_path(file_index), project[file_index],
                                     SourceProjectPath, config.chunk_size)
       IN  /\ chunks_dir' = WriteAll(chunks_dir, chunks)
           /\ all_chunks' = all_chunks \o [k \in 1..Len(chunks) |-> chunks[k].name]
    /\ file_index' = file_index + 1
    /\ UNCHANGED <<unit_vars, given_vars, config, project, pc, semaphore,
                   tasks, translated_chunks_dir, successful_translations,
                   output_files, merge_results, detailed_validation_results>>

\* steps 5 and 6 up to the gather: the semaphore and one coroutine per chunk
StartTranslation ==
    /\ pc = "split"
    /\ file_index > Len(project)
    /\ semaphore' = config.max_concurrent_requests
    /\ tasks' = [t \in 1..Len(all_chunks) |->
                    [state |-> "waiting", result |-> "pending", api |-> "none"]]
    /\ pc' = "gather"
    /\ UNCHANGED <<unit_vars, given_vars, config, project, file_index,
                   chunks_dir, all_chunks, translated_chunks_dir,
                   successful_translations, output_files, merge_results,
                   detailed_validation_results>>

\* Acquire without the wait for a free slot
Acquire_ungated(t) ==
    /\ pc = "gather"
    /\ tasks[t].state = "waiting"
    /\ semaphore' = semaphore - 1
    /\ tasks' = [tasks EXCEPT ![t].state = "inflight"]
    /\ UNCHANGED <<unit_vars, given_vars, config, project, pc, file_index,
                   chunks_dir, all_chunks, translated_chunks_dir,
                   successful_translations, output_files, merge_results,
                   detailed_validation_results>>

\* async with semaphore: task t takes a slot, reads its chunk and awaits
\* translate_chunk
Acquire(t) ==
    /\ pc = "gather"
    /\ tasks[t].state = "waiting"
    /\ semaphore > 0
    /\ semaphore' = semaphore - 1
    /\ tasks' = [tasks EXCEPT ![t].state = "inflight"]
    /\ UNCHANGED <<unit_vars, given_vars, config, project, pc, file_index,
                   chunks_dir, all_chunks, translated_chunks_dir,
                   successful_translations, output_files, merge_results,
                   detailed_validation_results>>

\* Complete with the slot given back by the except clause too, before
\* async with gives it back
Complete_double_release(t, kind) ==
    /\ pc = "gather"
    /\ tasks[t].state = "inflight"
    /\ LET chunk == chunks_dir[all_chunks[t]]
           done  == process_chunk(config.llm_provider, chunk,
                                  Response(kind, chunk.content))
       IN  /\ translated_chunks_dir' =
                 IF done.stored
                 THEN Put(translated_chunks_dir, basename(all_chunks[t]), done.data)
                 ELSE translated_chunks_dir
           /\ tasks' = [tasks EXCEPT ![t] =
                           [state  |-> "done",
                            result |-> IF done.result THEN "True" ELSE "False",
                            api    |-> kind]]
           /\ semaphore' = IF done.result THEN semaphore + 1 ELSE semaphore + 2
    /\ UNCHANGED <<unit_vars, given_vars, config, project, pc, file_index,
                   chunks_dir, all_chunks, successful_translations,
                   output_files, merge_results, detailed_validation_results>>

\* Complete with the slot given back only when the try block did not raise
Complete_leaking(t, kind) ==
    /\ pc = "gather"
    /\ tasks[t].state = "inflight"
    /\ LET chunk == chunks_dir[all_chunks[t]]
           done  == process_chunk(config.llm_provider, chunk,
                                  Response(kind, chunk.content))
       IN  /\ translated_chunks_dir' =
                 IF done.stored
                 THEN Put(translated_chunks_dir, basename(all_chunks[t]), done.data)
                 ELSE translated_chunks_dir
           /\ tasks' = [tasks EXCEPT ![t] =
                           [state  |-> "done",
                            result |-> IF done.result THEN "True" ELSE "False",
                            api    |-> kind]]
           /\ semaphore' = IF done.result THEN semaphore + 1 ELSE semaphore
    /\ UNCHANGED <<unit_vars, given_vars, config, project, pc, file_index,
                   chunks_dir, all_chunks, successful_translations,
                   output_files, merge_results, detailed_validation_results>>

\* Complete with a failed provider call cancelling the tasks that have not
\* ended yet
Complete_cancelling(t, kind) ==
    /\ pc = "gather"
    /\ tasks[t].state = "inflight"
    /\ LET chunk == chunks_dir[all_chunks[t]]
           done  == process_chunk(config.llm_provider, chunk,
                                  Response(kind, chunk.content))
           ended == [state  |-> "done",
                     result |-> IF done.result THEN "True" ELSE "False",
                     api    |-> kind]
       IN  /\ translated_chunks_dir' =
                 IF done.stored
                 THEN Put(translated_chunks_dir, basename(all_chunks[t]), done.data)
                 ELSE translated_chunks_dir
           /\ tasks' =
                 IF kind = "error"
                 THEN [u \in 1..Len(tasks) |->
                          IF u = t THEN ended
                          ELSE IF tasks[u].state = "done" THEN tasks[u]
                          ELSE [state |-> "done", result |-> "False", api |-> "none"]]
                 ELSE [tasks EXCEPT ![t] = ended]
           /\ semaphore' =
                 IF kind = "error"
                 THEN config.max_concurrent_requests
                 ELSE semaphore + 1
    /\ UNCHANGED <<unit_vars, given_vars, config, project, pc, file_index,
                   chunks_dir, all_chunks, successful_translations,
                   output_files, merge_results, detailed_validation_results>>

\* the provider call of task t ends with `kind`: the rest of the try block
\* runs, the record is stored unless a step raised (the open of the record
\* for writing among them), the slot is given back
Complete(t, kind) ==
    /\ pc = "gather"
    /\ tasks[t].state = "inflight"
    /\ LET chunk == chunks_dir[all_chunks[t]]
           done  == IF <<t, "store">> \in faults
                    THEN [result |-> FALSE, stored |-> FALSE, data |-> chunk]
                    ELSE process_chunk(config.llm_provider, chunk,
                                       Response(kind, chunk.content))
       IN  /\ translated_chunks_dir' =
                 IF done.stored
                 THEN Put(translated_chunks_dir, basename(all_chunks[t]), done.data)
                 ELSE translated_chunks_dir
           /\ tasks' = [tasks EXCEPT ![t] =
                           [state  |-> "done",
                            result |-> IF done.result THEN "True" ELSE "False",
                            api    |-> kind]]
    /\ semaphore' = semaphore + 1
    /\ UNCHANGED <<unit_vars, given_vars, config, project, pc, file_index,
                   chunks_dir, all_chunks, successful_translations,
                   output_files, merge_results, detailed_validation_results>>

\* GatherDone that returns as soon as one task has ended
GatherDone_first_completed ==
    /\ pc = "gather"
    /\ \E t \in 1..Len(tasks) : tasks[t].state = "done"
    /\ successful_translations' =
           Cardinality({t \in 1..Len(tasks) : tasks[t].result = "True"})
    /\ pc' = "merge"
    /\ file_index' = 1
    /\ UNCHANGED <<unit_vars, given_vars, config, project, chunks_dir,
                   all_chunks, semaphore, tasks, translated_chunks_dir,
                   output_files, merge_results, detailed_validation_results>>

\* asyncio.gather returns once every task has ended; the count of True
GatherDone ==
    /\ pc = "gather"
    /\ \A t \in 1..Len(tasks) : tasks[t].state = "done"
    /\ successful_translations' =
           Cardinality({t \in 1..Len(tasks) : tasks[t].result = "True"})
    /\ pc' = "merge"
    /\ file_index' = 1
    /\ UNCHANGED <<unit_vars, given_vars, config, project, chunks_dir,
                   all_chunks, semaphore, tasks, translated_chunks_dir,
                   output_files, merge_results, detailed_validation_results>>

\* MergeNextFile with nothing recorded for a file that was not merged
MergeNextFile_unrecorded ==
    /\ pc = "merge"
    /\ file_index <= Len(project)
    /\ \E outcome \in merge_outcomes(translated_chunks_dir, output_file(file_index)) :
          LET relative_path == files_to_translate[file_index]
              merged == IF <<file_index, "merge">> \in faults
                        THEN [ok |-> FALSE, written |-> <<>>]
                        ELSE outcome
              validation_result ==
                  IF merged.ok
                  THEN validate_merged_file(full_path(file_index),
                           project[file_index], merged.written, default_custom_instructions,
                           <<file_index, "validate">> \in faults)
                  ELSE MergeFailed
          IN  /\ merge_results' = Put(merge_results, relative_path, merged.ok)
              /\ output_files' =
                    IF merged.ok
                    THEN Put(output_files, relative_path, merged.written)
                    ELSE output_files
              /\ detailed_validation_results' =
                    IF merged.ok
                    THEN Put(detailed_validation_results, relative_path, validation_result)
                    ELSE detailed_validation_results
    /\ file_index' = file_index + 1
    /\ UNCHANGED <<unit_vars, given_vars, config, project, pc, chunks_dir,
                   all_chunks, semaphore, tasks, translated_chunks_dir,
                   successful_translations>>

\* step 7, one pass of the loop: merge_chunks on the next file, the staging
\* directory listed in any order
MergeNextFile ==
    /\ pc = "merge"
    /\ file_index <= Len(project)
    /\ \E outcome \in merge_outcomes(translated_chunks_dir, output_file(file_index)) :
          LET relative_path == files_to_translate[file_index]
              merged == IF <<file_index, "merge">> \in faults
                        THEN [ok |-> FALSE, written |-> <<>>]
                        ELSE outcome
              validation_result ==
                  IF merged.ok
                  THEN validate_merged_file(full_path(file_index),
                           project[file_index], merged.written, default_custom_instructions,
                           <<file_index, "validate">> \in faults)
                  ELSE MergeFailed
          IN  /\ merge_results' = Put(merge_results, relative_path, merged.ok)
              /\ output_files' =
                    IF merged.ok
                    THEN Put(output_files, relative_path, merged.written)
                    ELSE output_files
              /\ detailed_validation_results' =
                    Put(detailed_validation_results, relative_path, validation_result)
    /\ file_index' = file_index + 1
    /\ UNCHANGED <<unit_vars, given_vars, config, project, pc, chunks_dir,
                   all_chunks, semaphore, tasks, translated_chunks_dir,
                   successful_translations>>

\* the loop of step 7 is over
Finish ==
    /\ pc = "merge"
    /\ file_index > Len(project)
    /\ pc' = "done"
    /\ UNCHANGED <<unit_vars, given_vars, config, project, file_index,
                   chunks_dir, all_chunks, semaphore, tasks,
                   translated_chunks_dir, successful_translations,
                   output_files, merge_results, detailed_validation_results>>

Next ==
    \/ SplitNextFile
    \/ StartTranslation
    \/ \E t \in 1..Len(tasks) : Acquire(t)
    \/ \E t \in 1..Len(tasks) : \E kind \in KindsFor(config.llm_provider) :
          Complete(t, kind)
    \/ GatherDone
    \/ MergeNextFile
    \/ Finish

Spec == Init /\ [][Next]_vars

SpecOneFile == InitOneFile /\ [][Next]_vars

\* the provider call of task t ends, one way or another, and its slot is
\* given back: the Complete steps of t, whatever the call gave
CallEnds(t) ==
    /\ pc = "gather"
    /\ tasks[t].state = "inflight"
    /\ semaphore' = semaphore + 1

\* the event loop runs a coroutine that can take a step (a waiter is woken
\* when a slot is free, gather returns when its tasks are done), and every
\* provider call ends, by returning or by raising
FairSpec ==
    /\ Spec
    /\ WF_vars(\E t \in 1..Len(tasks) : Acquire(t))
    /\ WF_semaphore(\E t \in 1..Len(tasks) : CallEnds(t))
    /\ WF_vars(GatherDone)

(***************************************************************************)
(* Projects whose relative paths differ only in '/', '.' and '_'           *)
(***************************************************************************)
\* relative paths os.walk can find together under one project: a file, a
\* file in a directory, a file two directories down
PathNames ==
    {<<"a", ".", "p", "y">>,
     <<"a", "_", "b", ".", "p", "y">>,
     <<"a", "/", "b", ".", "p", "y">>,
     <<"a", "_", "p", "y", "/", "c", "h", "u", "n", "k", "/", "b", ".", "p", "y">>}

\* two of them, in either order of the analysis
PathLists == {l \in PathNames \X PathNames : l[1] # l[2]}

\* the texts of the two files
PathProjects == {p \in Projects : Len(p) = 2}

InitPaths ==
    \E c \in SequentialConfigs : \E f \in PathLists : \E p \in PathProjects :
        StartWith(c, f, p, {})

SpecPaths == InitPaths /\ [][Next]_vars

(***************************************************************************)
(* Runs in which file operations raise                                     *)
(***************************************************************************)
\* what can raise for a file: the open of split_file, the write of
\* merge_chunks, a read of validate_merged_file; each is caught where it
\* happens
FaultSteps == {"split", "merge", "validate"}

\* one or two operations raise in a run of a project of n files
FaultSets(n) ==
    {flt \in SUBSET ((1..n) \X FaultSteps) : flt # {} /\ Cardinality(flt) <= 2}

\* the numbers of lines of the two files of these runs: an empty file, a
\* file of one chunk, a file of one or two chunks
FaultFileLines == {<<0, 1>>, <<1, 0>>, <<1, 1>>, <<2, 1>>, <<1, 2>>, <<0, 2>>}

FaultProjects ==
    {<<PlainContent(1, n[1]), PlainContent(2, n[2])>> : n \in FaultFileLines}

InitFaults ==
    \E c \in SequentialConfigs : \E p \in FaultProjects : \E flt \in FaultSets(Len(p)) :
        StartWith(c, Paths, p, flt)

SpecFaults == InitFaults /\ [][Next]_vars

(***************************************************************************)
(* Runs in which the store of a translated chunk raises: the open of       *)
(* output_path in translate_chunk_with_semaphore fails, the except clause  *)
(* of the task returns False and no record is written for the chunk        *)
(***************************************************************************)
\* the stores that raise in a run of n tasks: none, one or two
StoreFaults(n) ==
    {flt \in SUBSET ((1..n) \X {"store"}) : Cardinality(flt) <= 2}

\* one file of one line or more, every line ended
StagingProjects == {<<PlainContent(1, n)>> : n \in 1..MaxLines}

InitStaging ==
    \E c \in SequentialConfigs : \E p \in StagingProjects :
        \E flt \in StoreFaults(Len(splitlines(p[1]))) :
            StartWith(c, SubSeq(Paths, 1, 1), p, flt)

SpecStaging == InitStaging /\ [][Next]_vars

(***************************************************************************)
(* The functions of the pipeline called on their own, on any text          *)
(***************************************************************************)
\* the greatest number of pieces a text given to the scrubber or to the
\* sanitizer is made of
MaxPieces == 4

\* the texts made of one to n pieces
RECURSIVE TextsOf(_, _)
TextsOf(pieces, n) ==
    IF n = 0 THEN {<<>>}
    ELSE LET shorter == TextsOf(pieces, n - 1)
         IN  shorter \cup {p \o t : p \in pieces, t \in shorter}

\* the variables of translate_project
run_vars == <<config, project, pc, file_index, chunks_dir, all_chunks, semaphore,
              tasks, translated_chunks_dir, successful_translations,
              output_files, merge_results, detailed_validation_results>>

\* no run of translate_project: a function is given its arguments, under a
\* configuration
UnitStartWith(c, original, text) ==
    /\ config = c
    /\ files_to_translate = <<>>
    /\ project = <<>>
    /\ faults = {}
    /\ pc = "unit"
    /\ file_index = 1
    /\ chunks_dir = <<>>
    /\ all_chunks = <<>>
    /\ semaphore = 0
    /\ tasks = <<>>
    /\ translated_chunks_dir = <<>>
    /\ successful_translations = 0
    /\ output_files = <<>>
    /\ merge_results = <<>>
    /\ detailed_validation_results = <<>>
    /\ given_original = original
    /\ given_content = text
    /\ returned = <<>>

\* the same under the configuration given to the functions that read none
UnitStart(original, text) ==
    UnitStartWith([chunk_size |-> 1, max_concurrent_requests |-> 1,
                   llm_provider |-> "groq"], original, text)

\* the text the next application is given: the argument, then what the
\* application before returned
Current == IF returned = <<>> THEN given_content ELSE returned[Len(returned)]

\* what marker text is made of: whole markers (with and without the '\n'),
\* their beginnings, a number, the closing dashes, other text
ScrubberPieces ==
    {ChunkStartPrefix, ChunkEndPrefix, <<"1">>, Dashes, <<NL>>, <<"a">>,
     ChunkStartPrefix \o <<"1">> \o Dashes,
     ChunkEndPrefix \o <<"2">> \o Dashes \o <<NL>>}

InitScrubber ==
    \E text \in TextsOf(ScrubberPieces, MaxPieces) : UnitStart(<<>>, text)

\* remove_boundary_markers applied, and applied again to what it returned
Scrub ==
    /\ pc = "unit"
    /\ Len(returned) < 2
    /\ returned' = Append(returned, remove_boundary_markers(Current))
    /\ UNCHANGED <<run_vars, given_vars, given_original, given_content>>

NextScrubber == Scrub

SpecScrubber == InitScrubber /\ [][NextScrubber]_vars

\* what a provider answer is made of around a fence: the fence, a language
\* tag, line ends, blanks, other text
SanitizerPieces == {Fence, <<"p", "y">>, <<NL>>, <<" ">>, <<"x">>}

InitSanitizer ==
    \E text \in TextsOf(SanitizerPieces, MaxPieces + 1) : UnitStart(<<>>, text)

\* clean_markdown_blocks applied, and applied again to what it returned
Clean ==
    /\ pc = "unit"
    /\ Len(returned) < 2
    /\ returned' = Append(returned, clean_markdown_blocks(Current))
    /\ UNCHANGED <<run_vars, given_vars, given_original, given_content>>

NextSanitizer == Clean

SpecSanitizer == InitSanitizer /\ [][NextSanitizer]_vars

\* the greatest difference between the line counts of a chunk and of its
\* translation in the texts given to the guard
MaxDrift == 13

\* the line counts of the chunks given to the guard: below and above the
\* count from which 15% of the lines is more than 10
DriftOriginalLines == {0, 1, 20, 80}

\* n lines, each one letter, the last with or without its '\n'
Lines(letter, n, final_newline) ==
    IF n = 0 THEN <<>>
    ELSE Concat([j \in 1..(n - 1) |-> <<letter, NL>>])
             \o (IF final_newline THEN <<letter, NL>> ELSE <<letter>>)

\* a chunk of n lines and a translation of it with d lines more or fewer
DriftShapes ==
    {c \in [n : DriftOriginalLines, d : 0..MaxDrift, more : BOOLEAN,
            final_newline : BOOLEAN] : c.more \/ c.d <= c.n}

DriftCases ==
    {<<Lines("a", c.n, c.final_newline),
       Lines("b", IF c.more THEN c.n + c.d ELSE c.n - c.d, FALSE)>> :
        c \in DriftShapes}

\* first lines of a chunk or of its translation: code, the same code with
\* another first word or another second word, indented code, brackets alone
\* or in front, a blank line, comments
FirstLines ==
    {<<"d", " ", "x">>, <<"e", " ", "x">>, <<"d", " ", "y">>,
     <<" ", "d", " ", "x">>, <<"(">>, <<"(", " ", "d">>, <<"(", "d", ")">>,
     <<"{", "}">>, <<>>, <<" ">>, <<"#", "d">>, <<"/", "/", "d">>}

\* a chunk and a translation of it with the same number of lines, any two
\* first lines
FirstLineCases ==
    {<<f \o <<NL, "z", NL>>, g \o <<NL, "z">> >> : f \in FirstLines, g \in FirstLines}
        \cup {<<f, g>> : f \in FirstLines, g \in FirstLines}

\* a chunk and a translation of it that both end with one or two blank
\* lines
BlankEndCases ==
    {<<f \o <<NL>> \o tail, g \o <<NL>> \o tail>> :
        f \in FirstLines, g \in FirstLines, tail \in {<<NL>>, <<NL, NL>>}}

InitGuard ==
    \E c \in DriftCases \cup FirstLineCases \cup BlankEndCases : UnitStart(c[1], c[2])

\* validate_translation(original_content, translated_content) called
Validate ==
    /\ pc = "unit"
    /\ returned = <<>>
    /\ returned' = <<validate_translation(given_original, given_content)>>
    /\ UNCHANGED <<run_vars, given_vars, given_original, given_content>>

NextGuard == Validate

SpecGuard == InitGuard /\ [][NextGuard]_vars

\* the greatest number of characters of a text given to the check of the
\* scripted characters
MaxScriptChars == 2

\* what these texts are made of: a letter, the first and the last character
\* of the range, the characters right before and right after it
ScriptPieces == {<<"a">>, <<"U+4DFF">>, <<"U+4E00">>, <<"U+9FFF">>, <<"U+A000">>}

\* config.custom_instructions: nothing, one policy, both policies in a
\* sentence
CustomInstructions ==
    {<<>>, PreserveFlag, TranslateFlag,
     <<"x", " ">> \o PreserveFlag \o <<",", " ">> \o TranslateFlag}

InitScript ==
    \E ci \in CustomInstructions :
        \E original \in TextsOf(ScriptPieces, MaxScriptChars) :
            \E text \in TextsOf(ScriptPieces, MaxScriptChars) :
                UnitStartWith([chunk_size |-> 1, max_concurrent_requests |-> 1,
                               llm_provider |-> "groq", custom_instructions |-> ci],
                              original, text)

\* validate_merged_file called on a file and its merged text
ValidateMerged ==
    /\ pc = "unit"
    /\ returned = <<>>
    /\ returned' = <<validate_merged_file(PathJoin(SourceProjectPath, Paths[1]),
                        given_original, given_content,
                        config.custom_instructions, FALSE)>>
    /\ UNCHANGED <<run_vars, given_vars, given_original, given_content>>

NextScript == ValidateMerged

SpecScript == InitScript /\ [][NextScript]_vars

(***************************************************************************)
(* ProjectAnalyzer.analyze_project                                         *)
(***************************************************************************)
\* os.path.splitext(file)[1]: from the last '.', unless only '.' stand
\* before it
splitext_ext(file) ==
    LET dots == {i \in 1..Len(file) : file[i] = "."}
    IN  IF dots = {} THEN <<>>
        ELSE LET last == CHOOSE i \in dots : \A j \in dots : j <= i
             IN  IF \E j \in 1..(last - 1) : file[j] # "." THEN Drop(file, last)
                 ELSE <<>>

\* os.path.relpath(file_path, project_path) of a file found by os.walk
walk_relative_path(entry) ==
    IF entry.dirs = <<>> THEN entry.name
    ELSE PathJoin(Join(entry.dirs, <<Sep>>), entry.name)

\* os.walk comes to the file: none of the directories above it was taken out
\* of dirs
Walked(entry, exclude_dirs) ==
    \A k \in 1..Len(entry.dirs) : entry.dirs[k] \notin exclude_dirs

\* project_info after the files of the walk are handled, one after the other
RECURSIVE analyze_files(_, _, _)
analyze_files(entries, c, project_info) ==
    IF entries = <<>> THEN project_info
    ELSE LET file == Head(entries)
             ext  == splitext_ext(file.name)
             chunks == (file.lines \div c.chunk_size) + 1
             counted == [project_info EXCEPT !.total_files = @ + 1]
         IN  IF ~Walked(file, c.exclude_dirs)
             THEN analyze_files(Tail(entries), c, project_info)
             ELSE IF ext \in c.supported_extensions /\ file.name \notin c.exclude_files
             THEN analyze_files(Tail(entries), c,
                      IF file.readable
                      THEN [counted EXCEPT
                               !.translatable_files = @ + 1,
                               !.estimated_chunks = @ + chunks,
                               !.files_to_translate =
                                   Append(@, [path   |-> walk_relative_path(file),
                                              lines  |-> file.lines,
                                              estimated_chunks |-> chunks])]
                      \* open() raises: the file is counted and not listed
                      ELSE [counted EXCEPT !.translatable_files = @ + 1])
             ELSE analyze_files(Tail(entries), c, counted)

analyze_project(entries, c) ==
    analyze_files(entries, c,
        [total_files |-> 0, translatable_files |-> 0, estimated_chunks |-> 0,
         files_to_translate |-> <<>>])

\* the greatest number of files of a project tree given to the analysis
MaxTreeFiles == 2

\* names of directories and of files
DirVenv == <<"v", "e", "n", "v">>
TreeDirs == {<<>>, << <<"d">> >>, <<DirVenv>>, << <<"d">>, DirVenv>>}
TreeNames ==
    {<<"a", ".", "p", "y">>, <<".", "p", "y">>, <<"a", ".", "t", "x", "t">>,
     <<"b", ".", "j", "s">>, <<"a", ".", "p", "y", ".", "b", "a", "k">>}

\* a file of the tree: where it is, its name, whether open() succeeds on it
\* (it fails on a dangling link or a file without read permission), its
\* number of lines
TreeFiles ==
    [dirs : TreeDirs, name : TreeNames, readable : BOOLEAN, lines : {0, 2}]

\* the files os.walk yields, in some order, no path twice
RECURSIVE Trees(_)
Trees(n) ==
    IF n = 0 THEN {<<>>}
    ELSE LET shorter == Trees(n - 1)
         IN  shorter \cup
             {Append(t, e) : t \in {u \in shorter : Len(u) = n - 1}, e \in TreeFiles}

DistinctPaths(tree) ==
    \A i \in 1..Len(tree) : \A j \in 1..Len(tree) :
        i # j => walk_relative_path(tree[i]) # walk_relative_path(tree[j])

\* the configurations of the analysis: the lists of TranslationConfig
AnalyzerConfigs ==
    [chunk_size              : {1},
     max_concurrent_requests : {1},
     llm_provider            : {"groq"},
     supported_extensions    : {{<<".", "p", "y">>, <<".", "j", "s">>}},
     exclude_dirs            : {{DirVenv}},
     exclude_files           : {{}, {<<"a", ".", "p", "y">>}}]

InitAnalyzer ==
    \E c \in AnalyzerConfigs :
        \E tree \in {t \in Trees(MaxTreeFiles) : DistinctPaths(t)} :
            UnitStartWith(c, tree, <<>>)

\* analyze_project(project_path) called
Analyze ==
    /\ pc = "unit"
    /\ returned = <<>>
    /\ returned' = <<analyze_project(given_original, config)>>
    /\ UNCHANGED <<run_vars, given_vars, given_original, given_content>>

NextAnalyzer == Analyze

SpecAnalyzer == InitAnalyzer /\ [][NextAnalyzer]_vars

\* the greatest number of chunk records given to the loop of merge_chunks
MaxBodies == 4

\* the contents of the records: nothing, a line with and without its '\n', a
\* blank line, two lines, a line that ends with '\r', a line after its start
\* marker, markers alone
BodyTexts ==
    {<<>>, <<"a">>, <<"a", NL>>, <<NL>>, <<"a", NL, "b">>, <<"a", "\r">>,
     StartMarker(1) \o <<"b">>, StartMarker(1) \o EndMarker(1)}

\* the sorted entries of records with these contents
EntriesOf(contents) ==
    [k \in 1..Len(contents) |->
        [path  |-> <<>>,
         index |-> k - 1,
         data  |-> [chunk_index |-> k - 1, content |-> contents[k]]]]

InitMerger ==
    \E contents \in TextsOf({<<b>> : b \in BodyTexts}, MaxBodies) :
        UnitStart(contents, <<>>)

\* one pass of the loop of merge_chunks over the sorted entries: the entry
\* after the ones already handled; returned is merged_lines
MergeOne ==
    /\ pc = "unit"
    /\ Len(returned) < Len(given_original)
    /\ LET i == Len(returned) + 1
       IN  returned' = MergeLoop(SubSeq(EntriesOf(given_original), 1, i), i, returned)
    /\ UNCHANGED <<run_vars, given_vars, given_original, given_content>>

NextMerger == MergeOne

SpecMerger == InitMerger /\ [][NextMerger]_vars

\* the greatest number of pieces of a text given to extract_structure
MaxStructureChars == 4

\* what these texts are made of: letters, a digit, an underscore, characters
\* that are dropped, characters that are kept, blanks, comment signs, line
\* ends
StructurePieces ==
    {<<"a">>, <<"b">>, <<"1">>, <<"_">>, <<".">>, <<"(">>, <<" ">>, <<"\t">>,
     <<"#">>, <<"/", "/">>, <<NL>>}

InitStructure ==
    \E text \in TextsOf(StructurePieces, MaxStructureChars) : UnitStart(<<>>, text)

\* extract_structure called on the lines of a text
Extract ==
    /\ pc = "unit"
    /\ returned = <<>>
    /\ returned' = <<extract_structure(splitlines(given_content))>>
    /\ UNCHANGED <<run_vars, given_vars, given_original, given_content>>

NextStructure == Extract

SpecStructure == InitStructure /\ [][NextStructure]_vars

\* the greatest number of pieces of a text given to the bracket diff
MaxBracketChars == 2

\* what these texts are made of: brackets, a quote, a comment sign, a
\* letter, a line end
BracketPieces ==
    {<<"(">>, <<")">>, <<"[">>, <<"\"">>, <<"#">>, <<"a">>, <<NL>>}

InitBrackets ==
    \E original \in TextsOf(BracketPieces, MaxBracketChars) :
        \E text \in TextsOf(BracketPieces, MaxBracketChars) :
            UnitStart(original, text)

\* find_structure_differences called on the lines of two texts
Differences ==
    /\ pc = "unit"
    /\ returned = <<>>
    /\ returned' = <<find_structure_differences(splitlines(given_original),
                                                splitlines(given_content))>>
    /\ UNCHANGED <<run_vars, given_vars, given_original, given_content>>

NextBrackets == Differences

SpecBrackets == InitBrackets /\ [][NextBrackets]_vars

\* the greatest number of characters of a text given to the indentation check
MaxIndentChars == 3

\* what these texts are made of: a blank, a tab, a letter, a line end
IndentPieces == {<<" ">>, <<"\t">>, <<"a">>, <<NL>>}

InitIndent ==
    \E original \in TextsOf(IndentPieces, MaxIndentChars) :
        \E text \in TextsOf(IndentPieces, MaxIndentChars) :
            UnitStart(original, text)

\* validate_indentation called on the lines of two texts
CheckIndentation ==
    /\ pc = "unit"
    /\ returned = <<>>
    /\ returned' = <<validate_indentation(splitlines(given_original),
                                          splitlines(given_content))>>
    /\ UNCHANGED <<run_vars, given_vars, given_original, given_content>>

NextIndent == CheckIndentation

SpecIndent == InitIndent /\ [][NextIndent]_vars

(***************************************************************************)
(* Notions the properties are stated with                                  *)
(***************************************************************************)
Min(a, b) == IF a < b THEN a ELSE b

\* the number of lines of a text: its '\n' characters, and one more for a
\* last line that has none
LineCount(text) ==
    Cardinality({i \in 1..Len(text) : text[i] = NL})
        + (IF text # <<>> /\ text[Len(text)] # NL THEN 1 ELSE 0)

\* the text of line l (from 0) of a file, without its '\n'
LineText(text, l) == splitlines(text)[l + 1]

\* whether split_file has run on file i
IsSplit(i) == pc # "split" \/ i < file_index

\* the records of a staging directory that belong to file i
RecordsOf(dir, i) ==
    {dir[n] : n \in {m \in DOMAIN dir : dir[m].original_file = full_path(i)}}

\* the record of file i with a given chunk_index
RecordAt(dir, i, k) == CHOOSE r \in RecordsOf(dir, i) : r.chunk_index = k

\* the tasks of the chunks of file i
TasksOf(i) ==
    {t \in 1..Len(tasks) : chunks_dir[all_chunks[t]].original_file = full_path(i)}

InFlight == {t \in 1..Len(tasks) : tasks[t].state = "inflight"}
Resolved == {t \in 1..Len(tasks) : tasks[t].state = "done"}

\* the provider call of a resolved task gave back the chunk as it was
ReturnedInput(t) ==
    LET content == chunks_dir[all_chunks[t]].content
    IN  translate_chunk(config.llm_provider, content,
                        Response(tasks[t].api, content)) = content

\* the lines a stored chunk adds to the merged file
Contribution(record) == splitlines(remove_boundary_markers(record.content))

\* the lines start_line..end_line-1 of file i, without their '\n'
OriginalLines(i, record) ==
    [l \in 1..(record.end_line - record.start_line) |->
        LineText(project[i], record.start_line + l - 1)]

(***************************************************************************)
(* C1. Partition: the chunk records split_file writes for a file of L      *)
(* lines have chunk_index 0..N-1 with none skipped, chunk k covers         *)
(* [k*chunk_size, min((k+1)*chunk_size, L)), every range is non-empty, and *)
(* every line of [0, L) lies in exactly one range; L = 0 gives no chunk.   *)
(***************************************************************************)
C1_Partition ==
    \A i \in 1..Len(project) :
        IsSplit(i) =>
            LET recs == RecordsOf(chunks_dir, i)
                N    == Cardinality(recs)
                L    == LineCount(project[i])
            IN  /\ {r.chunk_index : r \in recs} = 0..(N - 1)
                /\ \A r \in recs :
                      /\ r.start_line = r.chunk_index * config.chunk_size
                      /\ r.end_line =
                            Min((r.chunk_index + 1) * config.chunk_size, L)
                      /\ r.start_line < r.end_line
                /\ \A l \in 0..(L - 1) :
                      Cardinality({r \in recs :
                          r.start_line <= l /\ l < r.end_line}) = 1
                /\ (L = 0 => N = 0)

\* a file has been split into two chunks or more, the last one short
C1_Witness ==
    /\ IsSplit(1)
    /\ Cardinality(RecordsOf(chunks_dir, 1)) >= 2
    /\ \E r \in RecordsOf(chunks_dir, 1) :
          r.end_line - r.start_line < config.chunk_size

(***************************************************************************)
(* C2. Marker placement: in a file of N >= 1 chunks, the content of chunk  *)
(* k starts with the line ---CHUNK_START_<k, 4 digits>--- exactly when     *)
(* k > 0 and ends with the line ---CHUNK_END_<k, 4 digits>--- exactly when *)
(* k < N-1, and has_start_marker, has_end_marker are those two conditions. *)
(***************************************************************************)
C2_MarkerPlacement ==
    \A i \in 1..Len(project) :
        IsSplit(i) =>
            LET recs == RecordsOf(chunks_dir, i)
                N    == Cardinality(recs)
            IN  \A r \in recs :
                   /\ StartsWith(r.content, StartMarker(r.chunk_index))
                         <=> r.chunk_index > 0
                   /\ EndsWith(r.content, EndMarker(r.chunk_index))
                         <=> r.chunk_index < N - 1
                   /\ r.has_start_marker <=> r.chunk_index > 0
                   /\ r.has_end_marker <=> r.chunk_index < N - 1

\* a file has been split into three chunks: the middle one has both markers
C2_Witness ==
    /\ IsSplit(1)
    /\ Cardinality(RecordsOf(chunks_dir, 1)) = 3
    /\ \E r \in RecordsOf(chunks_dir, 1) : r.has_start_marker /\ r.has_end_marker

(***************************************************************************)
(* C3. Merge round trip: when the transform of every chunk of a file gives *)
(* its input back unchanged, the merged file is the file, byte for byte.   *)
(***************************************************************************)
C3_RoundTrip ==
    (pc = "done" /\ \A t \in 1..Len(tasks) : ReturnedInput(t)) =>
        \A i \in 1..Len(project) :
            RecordsOf(chunks_dir, i) # {} =>
                /\ merge_results[Paths[i]]
                /\ output_files[Paths[i]] = project[i]

(***************************************************************************)
(* C4. No chunk is dropped: once the pipeline pass is over, every chunk    *)
(* the Chunker made has a record in the translated staging area, whatever  *)
(* its transform call did.                                                 *)
(***************************************************************************)
C4_NoChunkDropped ==
    pc \in {"merge", "done"} =>
        \A name \in DOMAIN chunks_dir : name \in DOMAIN translated_chunks_dir

(***************************************************************************)
(* C5. When the transform of one chunk fails and the others succeed, the   *)
(* lines that chunk adds to the merged file are the lines                  *)
(* [start_line, end_line) of the original file, and the merged file is     *)
(* made of the lines of the chunks, each chunk its own, in chunk order.    *)
(***************************************************************************)
C5_FailedChunkKeepsOriginal ==
    pc = "done" =>
        \A i \in 1..Len(project) : \A t \in TasksOf(i) :
            (/\ tasks[t].api = "error"
             /\ \A u \in TasksOf(i) \ {t} : tasks[u].api = "fenced") =>
                LET recs == RecordsOf(translated_chunks_dir, i)
                    N    == Cardinality(TasksOf(i))
                    mine == chunks_dir[all_chunks[t]]
                IN  /\ merge_results[Paths[i]]
                    /\ {r.chunk_index : r \in recs} = 0..(N - 1)
                    /\ Contribution(RecordAt(translated_chunks_dir, i,
                                             mine.chunk_index))
                          = OriginalLines(i, mine)
                    /\ splitlines(output_files[Paths[i]]) =
                          Concat([k \in 1..N |->
                              Contribution(RecordAt(translated_chunks_dir, i, k - 1))])

(***************************************************************************)
(* C6. Bounded admission: in every state the number of chunks whose        *)
(* provider call has started and not yet ended is at most                  *)
(* max_concurrent_requests.                                                *)
(***************************************************************************)
C6_BoundedInFlight == Cardinality(InFlight) <= config.max_concurrent_requests

\* the gate is full and a chunk is waiting behind it
C6_Witness ==
    /\ pc = "gather"
    /\ Cardinality(InFlight) = config.max_concurrent_requests
    /\ config.max_concurrent_requests >= 2
    /\ \E t \in 1..Len(tasks) : tasks[t].state = "waiting"

(***************************************************************************)
(* C7. Liveness of admission: under a fair scheduler and provider calls    *)
(* that all end, every chunk is admitted and resolves, and the pipeline    *)
(* pass completes.                                                         *)
(***************************************************************************)
C7_EveryChunkResolves ==
    (pc = "gather") ~>
        (pc = "merge" /\ \A t \in 1..Len(tasks) : tasks[t].state = "done")

\* a pass has completed in which more chunks than slots were processed
C7_Witness ==
    /\ pc = "merge"
    /\ Len(tasks) > config.max_concurrent_requests
    /\ \A t \in 1..Len(tasks) : tasks[t].state = "done"

(***************************************************************************)
(* C8. Independence: what a resolved chunk task returned and stored is     *)
(* decided by its own chunk and its own provider call alone, whatever      *)
(* happened to the other chunks (failed calls included), and a task that   *)
(* ended, however it ended, holds no slot.                                 *)
(***************************************************************************)
C8_Independent ==
    /\ \A t \in Resolved :
          LET chunk == chunks_dir[all_chunks[t]]
              own   == process_chunk(config.llm_provider, chunk,
                                     Response(tasks[t].api, chunk.content))
          IN  /\ tasks[t].result = (IF own.result THEN "True" ELSE "False")
              /\ IF own.stored
                 THEN /\ all_chunks[t] \in DOMAIN translated_chunks_dir
                      /\ translated_chunks_dir[all_chunks[t]] = own.data
                 ELSE all_chunks[t] \notin DOMAIN translated_chunks_dir
    /\ \A t \in (1..Len(tasks)) \ Resolved :
          all_chunks[t] \notin DOMAIN translated_chunks_dir
    /\ pc = "gather" =>
          semaphore + Cardinality(InFlight) = config.max_concurrent_requests

\* a chunk whose call failed and a chunk whose call succeeded have both
\* resolved while a third is still to run
C8_Witness ==
    /\ pc = "gather"
    /\ \E t, u, w \in 1..Len(tasks) :
          /\ tasks[t].state = "done" /\ tasks[t].api = "error"
          /\ tasks[u].state = "done" /\ tasks[u].api = "fenced"
          /\ tasks[w].state # "done"

(***************************************************************************)
(* C9. Join barrier: no merge starts while a chunk task is unresolved.     *)
(***************************************************************************)
C9_JoinBarrier ==
    (pc \in {"merge", "done"} \/ merge_results # <<>>) =>
        \A t \in 1..Len(tasks) : tasks[t].state = "done"

\* the first file of a project of several chunks has been merged
C9_Witness ==
    /\ pc = "merge"
    /\ file_index = 2
    /\ Len(tasks) >= 2

(***************************************************************************)
(* C10. Order independence: the merged file is the concatenation of the    *)
(* stored records of the file in ascending chunk_index, in whatever order  *)
(* the chunks completed and the staging directory was listed.              *)
(***************************************************************************)
\* the stored records of file i as merge entries, by ascending chunk_index
RECURSIVE Ascending(_)
Ascending(recs) ==
    IF recs = {} THEN <<>>
    ELSE LET first == CHOOSE r \in recs :
                          \A q \in recs : r.chunk_index <= q.chunk_index
         IN  <<[path |-> <<>>, index |-> first.chunk_index, data |-> first]>>
                 \o Ascending(recs \ {first})

C10_OrderIndependent ==
    \A i \in 1..Len(project) :
        (Paths[i] \in DOMAIN merge_results /\ merge_results[Paths[i]]) =>
            output_files[Paths[i]] =
                merged_content(Ascending(RecordsOf(translated_chunks_dir, i)))

\* a file of three chunks has been merged
C10_Witness ==
    /\ Paths[1] \in DOMAIN merge_results
    /\ merge_results[Paths[1]]
    /\ Cardinality(RecordsOf(translated_chunks_dir, 1)) = 3

(***************************************************************************)
(* C11. The marker scrubber is idempotent: scrubbing what the scrubber     *)
(* returned gives the same text again, and no text the scrubber returned   *)
(* holds a ---CHUNK_START_<digits>--- or ---CHUNK_END_<digits>---.         *)
(***************************************************************************)
HasMarker(s) ==
    \E i \in 1..Len(s) :
        MarkerLen(s, i, ChunkStartPrefix) > 0 \/ MarkerLen(s, i, ChunkEndPrefix) > 0

C11_ScrubberIdempotent ==
    \A k \in 1..Len(returned) :
        /\ ~HasMarker(returned[k])
        /\ k > 1 => returned[k] = returned[k - 1]

(***************************************************************************)
(* C12. The output sanitizer is idempotent: cleaning what                  *)
(* clean_markdown_blocks returned changes nothing.                         *)
(***************************************************************************)
C12_SanitizerIdempotent ==
    Len(returned) = 2 => returned[2] = returned[1]

(***************************************************************************)
(* C13. Drift rejection: with N the lines of the original content and M    *)
(* those of the transformed content, validate_translation returns the      *)
(* original content as it is when |N - M| > max(10, 0.15 N), and otherwise *)
(* returns the transformed lines (the first one perhaps put back to the    *)
(* original first line): |N - M| = 10 does not discard the transform.      *)
(***************************************************************************)
LineDiff(a, b) ==
    IF Len(splitlines(a)) > Len(splitlines(b))
    THEN Len(splitlines(a)) - Len(splitlines(b))
    ELSE Len(splitlines(b)) - Len(splitlines(a))

\* |N - M| > max(10, 0.15 N)
Drifted(a, b) ==
    LineDiff(a, b) > 10 /\ 100 * LineDiff(a, b) > 15 * Len(splitlines(a))

C13_DriftRejection ==
    returned # <<>> =>
        LET original_lines   == splitlines(given_original)
            translated_lines == splitlines(given_content)
        IN  IF Drifted(given_original, given_content)
            THEN returned[1] = given_original
            ELSE \/ returned[1] = Join(translated_lines, <<NL>>)
                 \/ /\ original_lines # <<>>
                    /\ translated_lines # <<>>
                    /\ returned[1] =
                          Join(<<original_lines[1]>> \o Tail(translated_lines), <<NL>>)

\* a translation of an 80-line chunk that lost 13 lines was given and the
\* chunk came back, its last '\n' with it
C13_Witness ==
    /\ returned # <<>>
    /\ Len(splitlines(given_original)) = 80
    /\ Len(splitlines(given_content)) = 67
    /\ EndsWith(given_original, <<NL>>)
    /\ returned[1] = given_original

(***************************************************************************)
(* C14. First-line anchoring: for contents not rejected for drift, when    *)
(* the first line of the original, trimmed, is not empty and does not      *)
(* start with '#' or '//', and the first token left after deleting the     *)
(* characters { } ( ) differs between the two first lines (one of them     *)
(* having no token included), the first line of the result is the first    *)
(* line of the original; when the two first tokens are equal the           *)
(* transformed first line is kept.                                         *)
(***************************************************************************)
FirstLineOf(text) == IF splitlines(text) = <<>> THEN <<>> ELSE splitlines(text)[1]

FirstTokens(text) == split(RemoveChars(FirstLineOf(text), {"{", "}", "(", ")"}))

C14_FirstLineAnchored ==
    (/\ returned # <<>>
     /\ ~Drifted(given_original, given_content)
     /\ splitlines(given_original) # <<>>
     /\ splitlines(given_content) # <<>>
     /\ strip(FirstLineOf(given_original)) # <<>>
     /\ ~StartsWith(strip(FirstLineOf(given_original)), <<"#">>)
     /\ ~StartsWith(strip(FirstLineOf(given_original)), <<"/", "/">>)) =>
        LET ot == FirstTokens(given_original)
            tt == FirstTokens(given_content)
        IN  /\ (\/ (ot = <<>>) # (tt = <<>>)
                \/ ot # <<>> /\ tt # <<>> /\ ot[1] # tt[1]) =>
                  FirstLineOf(returned[1]) = FirstLineOf(given_original)
            /\ (ot # <<>> /\ tt # <<>> /\ ot[1] = tt[1]) =>
                  FirstLineOf(returned[1]) = FirstLineOf(given_content)


(***************************************************************************)
(* C15. Distinct chunks never share an artifact path: the chunk file names *)
(* split_file derives for two different (source file, chunk_index) pairs   *)
(* of one project are different, so no two chunk tasks read the same input *)
(* artifact or write the same output path, whatever the relative paths of  *)
(* the project (paths that differ only in '/', '.' and '_' included).      *)
(***************************************************************************)
\* all_chunks has one entry for every (source file, chunk_index) pair, and
\* task t reads all_chunks[t] and writes its base name in the output staging
C15_DistinctArtifacts ==
    \A s \in 1..Len(all_chunks) : \A t \in 1..Len(all_chunks) :
        s # t => /\ all_chunks[s] # all_chunks[t]
                 /\ basename(all_chunks[s]) # basename(all_chunks[t])

(***************************************************************************)
(* C16. Chunk rediscovery by name prefix is exact: the chunk records       *)
(* merge_chunks selects for a file are exactly the records the pipeline    *)
(* stored for the chunks of that file, none left out and no chunk of       *)
(* another file selected (a file whose safe name is a prefix of another    *)
(* file's safe name included).                                             *)
(***************************************************************************)
\* the names merge_chunks selects for file i out of the staging directory
SelectedFor(i) ==
    LET listing == CHOOSE l \in Listings(DOMAIN translated_chunks_dir) : TRUE
        chunk_files == chunk_files_of(translated_chunks_dir, listing,
                           safe_name(rel_output_path(output_file(i))))
    IN  {chunk_files[k].path : k \in 1..Len(chunk_files)}

\* the names under which a record of a chunk of file i is stored
StoredFor(i) ==
    {name \in DOMAIN translated_chunks_dir :
        translated_chunks_dir[name].original_file = full_path(i)}

C16_PrefixExact ==
    pc \in {"merge", "done"} =>
        \A i \in 1..Len(files_to_translate) : SelectedFor(i) = StoredFor(i)

(***************************************************************************)
(* C17. A transform failure is visible in the aggregate counts: at the end *)
(* of a pipeline pass the reported number of succeeded chunks equals the   *)
(* number of chunks whose provider call completed without failure, so a    *)
(* chunk whose call failed and was degraded to its original content is not *)
(* counted as succeeded, and succeeded <= attempted = number of chunks.    *)
(***************************************************************************)
\* the tasks whose provider call returned an answer
AnsweredTasks == {t \in 1..Len(tasks) : tasks[t].api \in {"echo", "fenced"}}

C17_FailuresCounted ==
    pc \in {"merge", "done"} =>
        /\ successful_translations = Cardinality(AnsweredTasks)
        /\ successful_translations <= Len(all_chunks)
        /\ Len(tasks) = Len(all_chunks)

(***************************************************************************)
(* C18. Per-file isolation of errors: a failure in one file's chunking,    *)
(* merge or validation never stops the processing of another file, and     *)
(* after the pass the per-file result map has exactly one entry for every  *)
(* file selected for translation, a file whose merge failed or whose       *)
(* validation raised being present with valid = false and a non-empty      *)
(* diagnostic list.                                                        *)
(***************************************************************************)
FaultsOf(i) == {flt \in faults : flt[1] = i}

C18_PerFileIsolation ==
    pc = "done" =>
        /\ DOMAIN detailed_validation_results =
               {files_to_translate[i] : i \in 1..Len(files_to_translate)}
        /\ DOMAIN merge_results = DOMAIN detailed_validation_results
        /\ \A i \in 1..Len(files_to_translate) :
              LET relative_path == files_to_translate[i]
                  result == detailed_validation_results[relative_path]
              IN  /\ (~merge_results[relative_path] \/ <<i, "validate">> \in faults) =>
                         ~result.valid /\ result.errors # <<>>
                  \* a file none of whose operations raises is chunked,
                  \* translated and merged whatever happens to the other
                  /\ (/\ FaultsOf(i) = {}
                      /\ project[i] # <<>>
                      /\ config.llm_provider = "groq") =>
                         /\ merge_results[relative_path]
                         /\ relative_path \in DOMAIN output_files

\* the pass is over: the validation of the first file raised, the second file
\* was merged and found valid
C18_Witness ==
    /\ pc = "done"
    /\ <<1, "validate">> \in faults
    /\ detailed_validation_results[files_to_translate[1]].errors =
           << <<"Validation exception">> >>
    /\ merge_results[files_to_translate[2]]
    /\ detailed_validation_results[files_to_translate[2]].valid

(***************************************************************************)
(* C19. Merge with no chunks: when no chunk record is found for a file (an *)
(* empty source file, for which the Chunker makes zero chunks, included),  *)
(* merge_chunks reports failure and writes no output file for it, the      *)
(* Integrity Validator is not run for that file, and the file's result is  *)
(* recorded as invalid with the diagnostic 'Failed to merge chunks'.       *)
(***************************************************************************)
\* the files the merge loop has handled
Merged(i) == (pc = "merge" /\ i < file_index) \/ pc = "done"

C19_NoChunksMergeFails ==
    \A i \in 1..Len(files_to_translate) :
        (Merged(i) /\ SelectedFor(i) = {}) =>
            LET relative_path == files_to_translate[i]
            IN  /\ merge_results[relative_path] = FALSE
                /\ relative_path \notin DOMAIN output_files
                /\ detailed_validation_results[relative_path] =
                       [valid |-> FALSE, errors |-> << <<"Failed to merge chunks">> >>]

\* the first file is empty, none of its operations raises, and the merge
\* loop has recorded it as not merged
C19_Witness ==
    /\ pc = "done"
    /\ project[1] = <<>>
    /\ FaultsOf(1) = {}
    /\ SelectedFor(1) = {}
    /\ ~detailed_validation_results[files_to_translate[1]].valid

(***************************************************************************)
(* C20. Every per-file validation result the system produces has valid =   *)
(* true if and only if its list of errors is empty, on every path: the     *)
(* normal return of validate_merged_file, its exception path, and the      *)
(* record written when the merge failed.                                   *)
(***************************************************************************)
C20_ValidIffNoErrors ==
    \A relative_path \in DOMAIN detailed_validation_results :
        detailed_validation_results[relative_path].valid
            <=> detailed_validation_results[relative_path].errors = <<>>

\* the three paths in one pass or another: here a file found invalid by the
\* checks themselves and a file whose validation raised
C20_Witness ==
    /\ pc = "done"
    /\ \E i \in 1..Len(files_to_translate) :
          /\ FaultsOf(i) = {}
          /\ merge_results[files_to_translate[i]]
          /\ ~detailed_validation_results[files_to_translate[i]].valid
    /\ \E i \in 1..Len(files_to_translate) :
          detailed_validation_results[files_to_translate[i]].errors =
              << <<"Validation exception">> >>

(***************************************************************************)
(* C21. Scripted-character check under the preserve policy: when           *)
(* custom_instructions declares PRESERVE_CHINESE_CHARACTERS, the check     *)
(* records a 'lost' diagnostic listing exactly the characters of the range *)
(* U+4E00..U+9FFF that occur in the original and nowhere in the merged     *)
(* text, and a 'new' diagnostic listing exactly those that occur in the    *)
(* merged text and nowhere in the original; the file is reported invalid   *)
(* whenever either set is not empty, and the check adds no diagnostic when *)
(* both are empty.                                                         *)
(***************************************************************************)
\* the characters of U+4E00..U+9FFF (19968..40959) that occur in a text
InRange(text) ==
    {text[i] : i \in {j \in 1..Len(text) :
        /\ text[j] \in DOMAIN CodePoint
        /\ CodePoint[text[j]] >= 19968
        /\ CodePoint[text[j]] <= 40959}}

\* the diagnostics of the check among the errors of a result
ScriptDiagnostics(result) ==
    {result.errors[k] : k \in {j \in 1..Len(result.errors) :
        result.errors[j][1] \in {"Lost Chinese characters (should be preserved)",
                                 "New Chinese characters appeared",
                                 "Chinese characters not translated"}}}

C21_PreserveCheck ==
    (returned # <<>> /\ FindSub(config.custom_instructions, PreserveFlag) # 0) =>
        LET lost == InRange(given_original) \ InRange(given_content)
            new  == InRange(given_content) \ InRange(given_original)
        IN  /\ ScriptDiagnostics(returned[1]) =
                   {<<"Lost Chinese characters (should be preserved)", lost>> :
                        x \in IF lost = {} THEN {} ELSE {1}}
                   \cup {<<"New Chinese characters appeared", new>> :
                            x \in IF new = {} THEN {} ELSE {1}}
            /\ (lost # {} \/ new # {}) => ~returned[1].valid

\* under the preserve policy the merged text has lost the first character of
\* the range and holds the last one, which the original has not
C21_Witness ==
    /\ returned # <<>>
    /\ config.custom_instructions = PreserveFlag
    /\ InRange(given_original) \ InRange(given_content) = {"U+4E00"}
    /\ InRange(given_content) \ InRange(given_original) = {"U+9FFF"}
    /\ ~returned[1].valid

(***************************************************************************)
(* C22. analyze_project counts a file as translatable, and lists it in     *)
(* files_to_translate, exactly when it lies outside every excluded         *)
(* directory, its extension is in supported_extensions and its name is not *)
(* in exclude_files; so a project holding at least one such file is        *)
(* reported with 1 <= translatable_files <= total_files.                   *)
(***************************************************************************)
\* the files of the tree the claim calls translatable
Eligible ==
    {i \in 1..Len(given_original) :
        /\ \A k \in 1..Len(given_original[i].dirs) :
              given_original[i].dirs[k] \notin config.exclude_dirs
        /\ splitext_ext(given_original[i].name) \in config.supported_extensions
        /\ given_original[i].name \notin config.exclude_files}

C22_TranslatableFiles ==
    returned # <<>> =>
        LET project_info == returned[1]
            listed == {project_info.files_to_translate[k].path :
                          k \in 1..Len(project_info.files_to_translate)}
        IN  /\ project_info.translatable_files = Cardinality(Eligible)
            /\ listed = {walk_relative_path(given_original[i]) : i \in Eligible}
            /\ Len(project_info.files_to_translate) = Cardinality(Eligible)
            /\ Eligible # {} => project_info.translatable_files >= 1
            /\ project_info.translatable_files <= project_info.total_files

(***************************************************************************)
(* C23. A gate slot is released on every way a chunk task can end: whether *)
(* the transform returns, fails, or another step of                        *)
(* translate_chunk_with_semaphore raises, the slot acquired for the chunk  *)
(* is given back exactly once, so when all chunk tasks have resolved the   *)
(* number of free slots is max_concurrent_requests again.                  *)
(***************************************************************************)
\* the tasks that hold a slot
Holding == {t \in 1..Len(tasks) : tasks[t].state = "inflight"}

C23_SlotReleased ==
    pc \in {"gather", "merge", "done"} =>
        /\ semaphore + Cardinality(Holding) = config.max_concurrent_requests
        /\ (\A t \in 1..Len(tasks) : tasks[t].state = "done") =>
               semaphore = config.max_concurrent_requests

\* every task of a pass of several chunks has ended, one of them because a
\* step after the provider call raised, and every slot is free
C23_Witness ==
    /\ pc = "merge"
    /\ Len(tasks) >= 2
    /\ \E t \in 1..Len(tasks) : tasks[t].result = "False"
    /\ semaphore = config.max_concurrent_requests

(***************************************************************************)
(* C24. Chunk boundaries never fuse two lines: for any sequence of         *)
(* scrubbed chunk bodies (empty bodies and bodies without a trailing       *)
(* newline included), at the moment the Merger appends the body of a chunk *)
(* other than the first, the text merged so far is either empty or ends    *)
(* with a newline.                                                         *)
(***************************************************************************)
\* the text merged before the body of entry k was appended: the entries of
\* merged_lines before it, as they are once it is appended
MergedBefore(k) == Concat(SubSeq(returned, 1, k - 1))

C24_NoFusedLines ==
    \A k \in 2..Len(returned) :
        MergedBefore(k) = <<>> \/ EndsWith(MergedBefore(k), <<NL>>)

\* a line without its '\n', then an empty body, then a line: three entries
\* merged, the two lines apart
C24_Witness ==
    /\ Len(given_original) = 3
    /\ given_original[1] = <<"a">>
    /\ given_original[2] = <<>>
    /\ given_original[3] = <<"a">>
    /\ Concat(returned) = <<"a", NL, "a">>

(***************************************************************************)
(* C25. The structural fingerprint computed by extract_structure is the    *)
(* one the specification defines, for every sequence of lines: blank lines *)
(* and lines that begin with '#' or '//' are skipped, and on every other   *)
(* line each punctuation or operator character is kept, each maximal run   *)
(* of identifier characters (letters, digits, underscore) is reduced to    *)
(* its first character, and each run of spaces and tabs to one space;      *)
(* identifiers that begin with underscores and identifier runs separated   *)
(* only by a dropped character are included.                               *)
(***************************************************************************)
\* what the definition keeps of a stripped line
RECURSIVE FingerprintLine(_, _)
FingerprintLine(stripped, i) ==
    IF i > Len(stripped) THEN <<>>
    ELSE LET char == stripped[i]
             rest == FingerprintLine(stripped, i + 1)
         IN  IF char \in StructureChars THEN <<char>> \o rest
             ELSE IF IsWord(char)
             THEN IF i = 1 \/ ~IsWord(stripped[i - 1]) THEN <<char>> \o rest ELSE rest
             ELSE IF char \in {" ", "\t"}
             THEN IF i = 1 \/ stripped[i - 1] \notin {" ", "\t"}
                  THEN <<" ">> \o rest ELSE rest
             ELSE rest

RECURSIVE FingerprintLines(_)
FingerprintLines(lines) ==
    IF lines = <<>> THEN <<>>
    ELSE LET stripped == strip(Head(lines))
             rest     == FingerprintLines(Tail(lines))
         IN  IF \/ stripped = <<>>
                \/ StartsWith(stripped, <<"#">>)
                \/ StartsWith(stripped, <<"/", "/">>)
                \/ FingerprintLine(stripped, 1) = <<>>
             THEN rest
             ELSE <<strip(FingerprintLine(stripped, 1))>> \o rest

C25_FingerprintAsDefined ==
    returned # <<>> =>
        returned[1] = Join(FingerprintLines(splitlines(given_content)), <<NL>>)

(***************************************************************************)
(* C26. The bracket-balance diff lists exactly the bracket types whose     *)
(* counts differ: a bracket character among ( ) [ ] { } appears in the     *)
(* result of find_structure_differences, with its original and merged      *)
(* counts, if and only if its count outside string literals and same-line  *)
(* comments differs between the two files; a bracket type that occurs in   *)
(* the merged file and not at all in the original is included, and when    *)
(* every count is equal no bracket type is listed.                         *)
(***************************************************************************)
\* the count of a bracket type in a text, 0 when it is not met
BracketCount(text, b) ==
    LET counts == count_brackets(splitlines(text))
    IN  IF b \in DOMAIN counts THEN counts[b] ELSE 0

C26_BracketDiffExact ==
    returned # <<>> =>
        returned[1] =
            {<<b, BracketCount(given_original, b), BracketCount(given_content, b)>> :
                b \in {c \in Brackets :
                    BracketCount(given_original, c) # BracketCount(given_content, c)}}

(***************************************************************************)
(* C27. Indentation check: validate_indentation returns no diagnostic when *)
(* the original and merged line counts differ; when they are equal it      *)
(* returns exactly one diagnostic for each line position i (from 1, in     *)
(* increasing order) at which the number of leading whitespace characters  *)
(* of the original line differs from that of the merged line, and none for *)
(* any other position.                                                     *)
(***************************************************************************)
\* the number of whitespace characters a line begins with
Leading(line) ==
    Cardinality({k \in 1..Len(line) : \A j \in 1..k : IsSpace(line[j])})

\* the positions at which the two texts are indented differently
Misindented ==
    {i \in 1..Len(splitlines(given_original)) :
        Leading(splitlines(given_original)[i]) # Leading(splitlines(given_content)[i])}

C27_IndentationCheck ==
    returned # <<>> =>
        LET errors == returned[1]
        IN  IF Len(splitlines(given_original)) # Len(splitlines(given_content))
            THEN errors = <<>>
            ELSE /\ Len(errors) = Cardinality(Misindented)
                 /\ \A k \in 1..Len(errors) :
                       /\ errors[k][2] \in Misindented
                       /\ errors[k] =
                             <<"Indentation mismatch at line", errors[k][2],
                               Leading(splitlines(given_original)[errors[k][2]]),
                               Leading(splitlines(given_content)[errors[k][2]])>>
                       /\ k > 1 => errors[k - 1][2] < errors[k][2]

\* two texts of two lines each, the second line indented by a tab in the
\* original only: one diagnostic, for line 2
C27_Witness ==
    /\ returned # <<>>
    /\ given_original = <<"a", NL, "\t">>
    /\ Len(splitlines(given_content)) = 2
    /\ returned[1] = << <<"Indentation mismatch at line", 2, 1, 0>> >>

(***************************************************************************)
(* C28. A no-op pass keeps the line count: when the transform of every     *)
(* chunk of a file returns its input unchanged, or the transform of every  *)
(* chunk fails and the original is kept, the merged file has as many lines *)
(* as the file, as validate_merged_file counts them, and no 'Line count    *)
(* mismatch' diagnostic is recorded for it; a file whose last line is      *)
(* blank is no exception.                                                  *)
(***************************************************************************)
\* every transform of file i gave its input back, or every one failed
NoOpPass(i) ==
    \/ \A t \in TasksOf(i) : tasks[t].api = "echo"
    \/ \A t \in TasksOf(i) : tasks[t].api \in {"error", "nocall"}

C28_NoOpKeepsLineCount ==
    pc = "done" =>
        \A i \in 1..Len(project) :
            (NoOpPass(i) /\ merge_results[Paths[i]]) =>
                /\ Len(splitlines(output_files[Paths[i]])) = Len(splitlines(project[i]))
                /\ \A k \in 1..Len(detailed_validation_results[Paths[i]].errors) :
                      detailed_validation_results[Paths[i]].errors[k][1]
                          # "Line count mismatch"

(***************************************************************************)
(* C29. Merge completeness: merge_chunks writes an output file and reports *)
(* success for a file only when the chunk records it found have the        *)
(* chunk_index values 0..N-1 with none missing, N being the number of      *)
(* chunks split_file made for the file; when the record of a chunk is      *)
(* absent from the staging area, the merge of the file does not report     *)
(* success over the other chunks.                                          *)
(***************************************************************************)
\* the chunks split_file made for file i
ChunksMade(i) ==
    {name \in DOMAIN chunks_dir : chunks_dir[name].original_file = full_path(i)}

C29_MergeComplete ==
    \A i \in 1..Len(project) :
        (Merged(i) /\ merge_results[files_to_translate[i]]) =>
            {r.chunk_index : r \in RecordsOf(translated_chunks_dir, i)}
                = 0..(Cardinality(ChunksMade(i)) - 1)

(***************************************************************************)
(* C30. The guard changes the first line at most: for contents not         *)
(* rejected for drift, the result of validate_translation has as many      *)
(* lines as the transformed content, its lines after the first are the     *)
(* lines of the transformed content, and its first line is the first line  *)
(* of the transformed content or that of the original; transformed content *)
(* that ends with blank lines is no exception.                             *)
(***************************************************************************)
C30_OnlyFirstLineChanged ==
    (returned # <<>> /\ ~Drifted(given_original, given_content)) =>
        LET result == splitlines(returned[1])
            given  == splitlines(given_content)
        IN  /\ Len(result) = Len(given)
            /\ \A i \in 2..Len(given) : result[i] = given[i]
            /\ given # <<>> =>
                  \/ result[1] = given[1]
                  \/ /\ splitlines(given_original) # <<>>
                     /\ result[1] = splitlines(given_original)[1]

====
